---- MODULE Spec2Model ----
(***************************************************************************)
(* Planar-homography engine of soccer-vision-studio: the homography edge   *)
(* function (supabase/functions/homography/index.ts), the useHomography    *)
(* hooks and the canvas mapper helpers (AnnotationCanvas.tsx).             *)
(*                                                                         *)
(* Numbers.  A JavaScript number is modelled exactly as an extended        *)
(* monomial surd: the record [n, d, r, e] stands for (n/d)*sqrt(r)*1e5^e   *)
(* with d >= 1, gcd(n, d) = 1, neither n nor d a multiple of 1e5, and r a  *)
(* square-free positive integer (r = 1 for a rational); d = 0 marks the    *)
(* non-finite values NaN (n = 0) and +/-Infinity (n = +/-1).  r = 0 marks  *)
(* the JSON value null, which JavaScript arithmetic coerces to 0.          *)
(* Arithmetic is real arithmetic with the IEEE rules for division by zero, *)
(* Infinity and NaN; rounding error of doubles and the sign of zero are    *)
(* not modelled.                                                           *)
(***************************************************************************)
EXTENDS Integers, Sequences, FiniteSets, TLC

\* The sequence f as an explicit tuple (the identity on sequences).
Force(f) == f \o <<>>

AbsInt(i) == IF i < 0 THEN -i ELSE i
SignInt(i) == IF i < 0 THEN -1 ELSE IF i > 0 THEN 1 ELSE 0

RECURSIVE GCD(_, _)
GCD(a, b) == IF b = 0 THEN a ELSE GCD(b, a % b)

\* The integer square root of m >= 0 by bisection of lo..hi (lo*lo <= m).
RECURSIVE IsqrtIn(_, _, _)
IsqrtIn(m, lo, hi) ==
  IF lo >= hi THEN lo
  ELSE LET mid == (lo + hi + 1) \div 2
       IN  IF mid <= m \div mid THEN IsqrtIn(m, mid, hi) ELSE IsqrtIn(m, lo, mid - 1)
\* 46340 is the largest integer whose square is a 32-bit integer.
Isqrt(m) == IsqrtIn(m, 0, IF m < 46340 THEN m ELSE 46340)

\* m = s*s*r with r square-free, for m >= 1: <<s, r>> (s*s the largest square
\* dividing m).
MaxOf(ks) == CHOOSE k \in ks : \A j \in ks : j <= k
SquareOut(m, s) == <<s, m \div (s * s)>>
SquarePart(m) == SquareOut(m, MaxOf({k \in 1..Isqrt(m) : m % (k * k) = 0}))

NaN == [n |-> 0, d |-> 0, r |-> 1, e |-> 0]
PosInf == [n |-> 1, d |-> 0, r |-> 1, e |-> 0]
NegInf == [n |-> -1, d |-> 0, r |-> 1, e |-> 0]
NullNum == [n |-> 0, d |-> 0, r |-> 0, e |-> 0]
\* A sum of two surds with different radicands: not a monomial surd.
Irrep == [n |-> 0, d |-> 0, r |-> 2, e |-> 0]

Inf(s) == IF s < 0 THEN NegInf ELSE PosInf

\* The tolerance of the mappers is 1e-10 = EpsInvRoot^-2; EpsInvRoot is also
\* the base of the exponent e.
EpsInvRoot == 100000

\* (n/d)*sqrt(r)*EpsInvRoot^e for n # 0 and gcd(n, d) = 1, the multiples of
\* EpsInvRoot moved out of n and d into e.
RECURSIVE Scaled(_, _, _, _)
Scaled(n, d, r, e) ==
  IF n % EpsInvRoot = 0 THEN Scaled(n \div EpsInvRoot, d, r, e + 1)
  ELSE IF d % EpsInvRoot = 0 THEN Scaled(n, d \div EpsInvRoot, r, e - 1)
  ELSE [n |-> n, d |-> d, r |-> r, e |-> e]

\* The finite value (n/d)*sqrt(r)*EpsInvRoot^e, d # 0, in lowest terms.
Lowest(n, d, r, e, g) == Scaled(n \div g, d \div g, r, e)
SurdE(n, d, r, e) ==
  IF n = 0 THEN [n |-> 0, d |-> 1, r |-> 1, e |-> 0]
  ELSE IF d < 0 THEN Lowest(-n, -d, r, e, GCD(AbsInt(n), AbsInt(d)))
  ELSE Lowest(n, d, r, e, GCD(AbsInt(n), AbsInt(d)))
Surd(n, d, r) == SurdE(n, d, r, 0)

Rat(n, d) == Surd(n, d, 1)
Int2Num(i) == Surd(i, 1, 1)
Zero == Int2Num(0)
One == Int2Num(1)

\* ToNumber: null is 0 in arithmetic.
ToNumber(x) == IF x = NullNum THEN Zero ELSE x

IsNaN(x) == x.d = 0 /\ x.n = 0
IsInf(x) == x.d = 0 /\ x.n # 0
IsFinite(x) == x.d > 0
IsZero(x) == x.d > 0 /\ x.n = 0
SignNum(x) == SignInt(x.n)

NegRaw(a) == IF IsNaN(a) THEN a ELSE [n |-> -a.n, d |-> a.d, r |-> a.r, e |-> a.e]

\* The finite value a with its exponent lowered to m <= a.e, or folded away.
Aligned(a, m) == [n |-> a.n * EpsInvRoot ^ (a.e - m), d |-> a.d, r |-> a.r, e |-> m]
Unscaled(a) ==
  IF a.e >= 0 THEN Aligned(a, 0)
  ELSE [n |-> a.n, d |-> a.d * EpsInvRoot ^ (-a.e), r |-> a.r, e |-> 0]
Neg(x) == NegRaw(ToNumber(x))

\* a + b for finite a and b of one radicand and one exponent, g = gcd(a.d, b.d).
AddOver(a, b, g) ==
  SurdE(a.n * (b.d \div g) + b.n * (a.d \div g), (a.d \div g) * b.d, a.r, a.e)
AddAligned(a, b) == AddOver(a, b, GCD(a.d, b.d))

AddRaw(a, b) ==
  IF a = Irrep \/ b = Irrep THEN Irrep
  ELSE IF IsNaN(a) \/ IsNaN(b) THEN NaN
  ELSE IF IsInf(a) /\ IsInf(b) THEN (IF a.n = b.n THEN a ELSE NaN)
  ELSE IF IsInf(a) THEN a
  ELSE IF IsInf(b) THEN b
  ELSE IF a.n = 0 THEN b
  ELSE IF b.n = 0 THEN a
  ELSE IF a.r # b.r THEN Irrep
  ELSE IF a.e = b.e THEN AddOver(a, b, GCD(a.d, b.d))
  ELSE IF a.e < b.e THEN AddAligned(a, Aligned(b, a.e))
  ELSE AddAligned(Aligned(a, b.e), b)
Add(x, y) == AddRaw(ToNumber(x), ToNumber(y))
Sub(x, y) == AddRaw(ToNumber(x), Neg(y))

\* The product n1*n2*g / (d1*d2) * sqrt(r) * EpsInvRoot^e, with g cancelled
\* against d1 and d2.
MulCancel(n1, n2, d1, d2, g, h1, r, e) ==
  SurdE(n1 * n2 * ((g \div h1) \div GCD(g \div h1, d2)),
        (d1 \div h1) * (d2 \div GCD(g \div h1, d2)), r, e)

\* a*b for finite non-zero a and b: sqrt(ra)*sqrt(rb) = g*sqrt((ra/g)*(rb/g)) with
\* g = gcd(ra, rb); g1 and g2 cancel across the two fractions first.
MulCross(a, b, g, g1, g2) ==
  MulCancel(a.n \div g1, b.n \div g2, a.d \div g2, b.d \div g1, g,
            GCD(g, a.d \div g2), (a.r \div g) * (b.r \div g), a.e + b.e)

MulRaw(a, b) ==
  IF a = Irrep \/ b = Irrep THEN Irrep
  ELSE IF IsNaN(a) \/ IsNaN(b) THEN NaN
  ELSE IF IsInf(a) \/ IsInf(b)
       THEN (IF a.n = 0 \/ b.n = 0 THEN NaN ELSE Inf(SignInt(a.n) * SignInt(b.n)))
  ELSE IF a.n = 0 \/ b.n = 0 THEN Zero
  ELSE MulCross(a, b, GCD(a.r, b.r), GCD(AbsInt(a.n), b.d), GCD(AbsInt(b.n), a.d))
Mul(x, y) == MulRaw(ToNumber(x), ToNumber(y))

\* 1/b for a finite non-zero b: d/(n*r) * sqrt(r).
RecipOver(b, g) ==
  SurdE(SignInt(b.n) * (b.d \div g), AbsInt(b.n) * (b.r \div g), b.r, -b.e)
Recip(b) == RecipOver(b, GCD(b.d, b.r))

DivRaw(a, b) ==
  IF a = Irrep \/ b = Irrep THEN Irrep
  ELSE IF IsNaN(a) \/ IsNaN(b) THEN NaN
  ELSE IF IsInf(a) /\ IsInf(b) THEN NaN
  ELSE IF IsInf(a) THEN Inf(a.n * (IF b.n < 0 THEN -1 ELSE 1))
  ELSE IF IsInf(b) THEN Zero
  ELSE IF b.n = 0 THEN (IF a.n = 0 THEN NaN ELSE Inf(a.n))
  ELSE MulRaw(a, Recip(b))
Div(x, y) == DivRaw(ToNumber(x), ToNumber(y))

Sq(x) == Mul(x, x)

\* |t| > 1 for a finite non-zero t = (n/d)*sqrt(r).
AbsGtOnePlain(t) ==
  IF t.r = 1 THEN AbsInt(t.n) > t.d
  ELSE IF AbsInt(t.n) >= t.d THEN TRUE
  ELSE IF (t.d \div AbsInt(t.n)) * (t.d \div AbsInt(t.n)) >= t.r THEN FALSE
  ELSE t.n * t.n * t.r > t.d * t.d
\* |t| > 1 for a finite non-zero t; n and d are 32-bit, below EpsInvRoot^2.
AbsGtOne(t) ==
  IF t.e >= 2 THEN TRUE
  ELSE IF t.e <= -2 /\ t.r = 1 THEN FALSE
  ELSE AbsGtOnePlain(Unscaled(t))

\* Math.abs(a) > Math.abs(b); false when either is NaN.
AbsGtRaw(a, b) ==
  IF IsNaN(a) \/ IsNaN(b) THEN FALSE
  ELSE IF IsInf(a) THEN IsFinite(b)
  ELSE IF IsInf(b) THEN FALSE
  ELSE IF b.n = 0 THEN a.n # 0
  ELSE IF a.n = 0 THEN FALSE
  ELSE AbsGtOne(DivRaw(a, b))
AbsGt(x, y) == AbsGtRaw(ToNumber(x), ToNumber(y))

\* sqrt(n/d) = s1*sqrt(r1) / (s2*sqrt(r2)) = s1/(s2*r2) * sqrt(r1*r2)
SqrtParts(sn, sd, e) == SurdE(sn[1], sd[1] * sd[2], sn[2] * sd[2], e)
\* The square root of a positive rational: half the exponent when it is even.
SqrtScaled(a) ==
  IF a.e % 2 = 0 THEN SqrtParts(SquarePart(a.n), SquarePart(a.d), a.e \div 2)
  ELSE SqrtParts(SquarePart(Unscaled(a).n), SquarePart(Unscaled(a).d), 0)

\* Math.sqrt of a rational or non-finite value.
SqrtRaw(a) ==
  IF IsNaN(a) \/ a = Irrep THEN a
  ELSE IF a = PosInf THEN a
  ELSE IF a.n < 0 THEN NaN
  ELSE IF a.n = 0 THEN Zero
  ELSE IF a.r # 1 THEN Irrep
  ELSE SqrtScaled(a)
Sqrt(x) == SqrtRaw(ToNumber(x))

\* Math.abs(a) < 1e-10 for a finite rational a # 0, i.e. |n| * EpsInvRoot^k < d
\* with k = a.e + 2; n and d are 32-bit, below EpsInvRoot^2.
AbsLtEpsScaled(a, k) ==
  IF k >= 2 THEN FALSE
  ELSE IF k = 1 THEN AbsInt(a.n) <= (a.d - 1) \div EpsInvRoot
  ELSE IF k = 0 THEN AbsInt(a.n) < a.d
  ELSE IF k = -1 THEN AbsInt(a.n) \div EpsInvRoot < a.d
  ELSE TRUE
\* Math.abs(a) < 1e-10; false for NaN and the infinities.  An irrational a
\* whose exponent folds into its 32-bit denominator is above 2^-31 in magnitude.
AbsLtEpsRaw(a) ==
  /\ IsFinite(a)
  /\ \/ a.n = 0
     \/ a.r = 1 /\ AbsLtEpsScaled(a, a.e + 2)
     \/ a.r # 1 /\ a.e < 0 /\ Unscaled(a).d < 1
AbsLtEps(x) == AbsLtEpsRaw(ToNumber(x))

RECURSIVE SumFrom(_, _, _)
SumFrom(s, i, acc) == IF i > Len(s) THEN acc ELSE SumFrom(s, i + 1, Add(acc, s[i]))
\* let sum = 0; for (...) sum += s[i]
SumSeq(s) == SumFrom(s, 1, Zero)

-----------------------------------------------------------------------------
(* Matrix kernel and linear solver of the edge function. *)

matMul(A, B) ==
  Force([i \in 1..Len(A) |->
    Force([j \in 1..Len(B[1]) |->
      SumSeq(Force([k \in 1..Len(A[1]) |-> Mul(A[i][k], B[k][j])]))])])

transpose(A) ==
  Force([c \in 1..Len(A[1]) |-> Force([r \in 1..Len(A) |-> A[r][c]])])

\* The pivot search of column col: rows col+1..n against the running maxRow.
RECURSIVE FindPivot(_, _, _, _)
FindPivot(aug, col, row, maxRow) ==
  IF row > Len(aug) THEN maxRow
  ELSE FindPivot(aug, col, row + 1,
                 IF AbsGt(aug[row][col], aug[maxRow][col]) THEN row ELSE maxRow)

SwapRows(aug, i, j) ==
  Force([k \in 1..Len(aug) |-> IF k = i THEN aug[j] ELSE IF k = j THEN aug[i] ELSE aug[k]])

\* One column of the forward elimination, after the swap.
EliminateColumn(aug, col) ==
  Force([row \in 1..Len(aug) |->
    IF row <= col THEN aug[row]
    ELSE LET factor == Div(aug[row][col], aug[col][col])
         IN  Force([j \in 1..Len(aug[row]) |->
               IF j < col THEN aug[row][j]
               ELSE Sub(aug[row][j], Mul(factor, aug[col][j]))])])

RECURSIVE ForwardEliminate(_, _)
ForwardEliminate(aug, col) ==
  IF col > Len(aug) THEN aug
  ELSE LET maxRow == FindPivot(aug, col, col + 1, col)
           swapped == SwapRows(aug, col, maxRow)
       IN  ForwardEliminate(EliminateColumn(swapped, col), col + 1)

RECURSIVE BackSubRow(_, _, _, _, _)
BackSubRow(aug, x, i, j, acc) ==
  IF j > Len(aug) THEN acc
  ELSE BackSubRow(aug, x, i, j + 1, Sub(acc, Mul(aug[i][j], x[j])))

RECURSIVE BackSubstitute(_, _, _)
BackSubstitute(aug, x, i) ==
  IF i < 1 THEN x
  ELSE LET n == Len(aug)
           xi == Div(BackSubRow(aug, x, i, i + 1, aug[i][n + 1]), aug[i][i])
       IN  BackSubstitute(aug, Force([k \in 1..n |-> IF k = i THEN xi ELSE x[k]]), i - 1)

gaussianElimination(A, b) ==
  LET n == Len(A)
      augmented == Force([i \in 1..n |-> Append(A[i], b[i])])
      reduced == ForwardEliminate(augmented, 1)
  IN  BackSubstitute(reduced, Force([k \in 1..n |-> Zero]), n)

-----------------------------------------------------------------------------
(* computeHomography: normalized DLT, solved through the normal equations. *)

Threw(msg) == [threw |-> TRUE, message |-> msg]

\* normalizePoints, from the scale on: the normalized points, T and invT.
NormalizeScaled(points, meanX, meanY, scale) ==
  [normalized |-> Force([i \in 1..Len(points) |->
                    << Mul(Sub(points[i][1], meanX), scale),
                       Mul(Sub(points[i][2], meanY), scale) >>]),
   T |-> << <<scale, Zero, Mul(Neg(meanX), scale)>>,
            <<Zero, scale, Mul(Neg(meanY), scale)>>,
            <<Zero, Zero, One>> >>,
   invT |-> << <<Div(One, scale), Zero, meanX>>,
               <<Zero, Div(One, scale), meanY>>,
               <<Zero, Zero, One>> >>]

\* sumSq and scale = sqrt(2) / sqrt(sumSq / n).
NormalizeAbout(points, n, meanX, meanY) ==
  NormalizeScaled(points, meanX, meanY,
    Div(Sqrt(Int2Num(2)),
        Sqrt(Div(SumSeq(Force([i \in 1..Len(points) |->
                   Add(Sq(Sub(points[i][1], meanX)), Sq(Sub(points[i][2], meanY)))])),
                 Int2Num(n)))))

\* normalizePoints of computeHomography; n is the number of video points.
normalizePoints(points, n) ==
  NormalizeAbout(points, n,
    Div(SumSeq(Force([i \in 1..Len(points) |-> points[i][1]])), Int2Num(n)),
    Div(SumSeq(Force([i \in 1..Len(points) |-> points[i][2]])), Int2Num(n)))

\* The two rows of the DLT matrix A for correspondence i.
DltRows(src, dst, i) ==
  LET x == src[i][1]
      y == src[i][2]
      xp == dst[i][1]
      yp == dst[i][2]
  IN  << <<Neg(x), Neg(y), Neg(One), Zero, Zero, Zero, Mul(x, xp), Mul(y, xp), xp>>,
         <<Zero, Zero, Zero, Neg(x), Neg(y), Neg(One), Mul(x, yp), Mul(y, yp), yp>> >>

\* A.push(row 1); A.push(row 2) for i = 0..n-1.
DltMatrix(src, dst, n) ==
  Force([k \in 1..(2 * n) |-> DltRows(src, dst, (k + 1) \div 2)[2 - (k % 2)]])

\* Projection of a point through H with no guard on the divisor.
Project(H, x, y) ==
  LET w == Add(Add(Mul(H[3][1], x), Mul(H[3][2], y)), H[3][3])
  IN  << Div(Add(Add(Mul(H[1][1], x), Mul(H[1][2], y)), H[1][3]), w),
         Div(Add(Add(Mul(H[2][1], x), Mul(H[2][2], y)), H[2][3]), w) >>

\* totalError of the reprojection loop.
ReprojectionTotal(H, videoPoints, pitchPoints, n) ==
  SumSeq(Force([i \in 1..n |->
    LET proj == Project(H, videoPoints[i][1], videoPoints[i][2])
    IN  Add(Sq(Sub(proj[1], pitchPoints[i][1])), Sq(Sub(proj[2], pitchPoints[i][2])))]))

\* The return value: the matrix and the RMS reprojection error.
Estimated(videoPoints, pitchPoints, H) ==
  [threw |-> FALSE, matrix |-> H,
   error |-> Sqrt(Div(ReprojectionTotal(H, videoPoints, pitchPoints, Len(videoPoints)),
                      Int2Num(Len(videoPoints))))]

\* H[i][j] /= H[2][2]
ScaleToUnit(videoPoints, pitchPoints, H) ==
  Estimated(videoPoints, pitchPoints,
            Force([i \in 1..3 |-> Force([j \in 1..3 |-> Div(H[i][j], H[3][3])])]))

\* h = [...hReduced, 1] as the 3x3 matrix Hnorm.
Hnorm(h) == << <<h[1], h[2], h[3]>>, <<h[4], h[5], h[6]>>, <<h[7], h[8], h[9]>> >>

\* H = invT_dst * Hnorm * T_src
Denormalize(videoPoints, pitchPoints, srcNorm, dstNorm, hReduced) ==
  ScaleToUnit(videoPoints, pitchPoints,
              matMul(matMul(dstNorm.invT, Hnorm(Append(hReduced, One))), srcNorm.T))

\* AtAr, Atb and the solution of AtAr h = Atb.
SolveNormalEquations(videoPoints, pitchPoints, srcNorm, dstNorm, Areduced, breduced, AtR) ==
  Denormalize(videoPoints, pitchPoints, srcNorm, dstNorm,
    gaussianElimination(matMul(AtR, Areduced),
      Force([i \in 1..Len(AtR) |->
        SumSeq(Force([j \in 1..Len(AtR[i]) |-> Mul(AtR[i][j], breduced[j])]))])))

NormalEquations(videoPoints, pitchPoints, srcNorm, dstNorm, Areduced, breduced) ==
  SolveNormalEquations(videoPoints, pitchPoints, srcNorm, dstNorm, Areduced, breduced,
                       transpose(Areduced))

\* Areduced = the first 8 columns of A, breduced = minus its last column.
ReduceDlt(videoPoints, pitchPoints, srcNorm, dstNorm, A) ==
  NormalEquations(videoPoints, pitchPoints, srcNorm, dstNorm,
                  Force([i \in 1..Len(A) |-> SubSeq(A[i], 1, 8)]),
                  Force([i \in 1..Len(A) |-> Neg(A[i][9])]))

EstimateNormalized(videoPoints, pitchPoints, srcNorm, dstNorm) ==
  ReduceDlt(videoPoints, pitchPoints, srcNorm, dstNorm,
            DltMatrix(srcNorm.normalized, dstNorm.normalized, Len(videoPoints)))

\* dst[i] is undefined beyond the pitch points: destructuring it throws.
computeHomography(videoPoints, pitchPoints) ==
  IF Len(videoPoints) < 4 THEN Threw("At least 4 points required")
  ELSE IF Len(pitchPoints) < Len(videoPoints) THEN Threw("TypeError")
  ELSE EstimateNormalized(videoPoints, pitchPoints,
                          normalizePoints(videoPoints, Len(videoPoints)),
                          normalizePoints(pitchPoints, Len(videoPoints)))


-----------------------------------------------------------------------------
(* Rounding and JSON encoding of numbers. *)

\* Math.round of a finite value: floor(x + 1/2).  An irrational x is never a
\* half-integer, so Math.round(-y) = -Math.round(y) for it.
RoundFinite(a) ==
  IF a.r = 1 THEN (2 * a.n + a.d) \div (2 * a.d)
  ELSE LET twice == Isqrt(4 * a.n * a.n * a.r) \div a.d
       IN  SignInt(a.n) * ((twice + 1) \div 2)

\* Math.round(x): NaN and the infinities are returned unchanged.
RoundNum(x) ==
  LET a == ToNumber(x)
  IN  IF a = Irrep \/ ~IsFinite(a) THEN a ELSE Int2Num(RoundFinite(Unscaled(a)))

\* JSON.stringify of a number: NaN and the infinities become null.
JsonNumber(x) == IF x = Irrep \/ IsFinite(x) THEN x ELSE NullNum
JsonPoint(p) == <<JsonNumber(p[1]), JsonNumber(p[2])>>
JsonMatrix(M) == Force([i \in 1..Len(M) |-> Force([j \in 1..Len(M[i]) |-> JsonNumber(M[i][j])])])

\* A JavaScript null or undefined object reference.
null == <<>>

-----------------------------------------------------------------------------
(* Point mapping and distance of the edge function. *)

transformPoint(point, H) ==
  LET x == point[1]
      y == point[2]
      w == Add(Add(Mul(H[3][1], x), Mul(H[3][2], y)), H[3][3])
  IN  << Div(Add(Add(Mul(H[1][1], x), Mul(H[1][2], y)), H[1][3]), w),
         Div(Add(Add(Mul(H[2][1], x), Mul(H[2][2], y)), H[2][3]), w) >>

\* A distance whose second term adds the ordinates instead of subtracting them.
calculateDistanceSum(p1, p2) ==
  Sqrt(Add(Sq(Sub(p2[1], p1[1])), Sq(Add(p2[2], p1[2]))))

calculateDistance(p1, p2) ==
  Sqrt(Add(Sq(Sub(p2[1], p1[1])), Sq(Sub(p2[2], p1[2]))))

-----------------------------------------------------------------------------
(* The canvas mapper helpers (AnnotationCanvas.tsx). *)

Det3(H) ==
  Add(Sub(Mul(H[1][1], Sub(Mul(H[2][2], H[3][3]), Mul(H[2][3], H[3][2]))),
          Mul(H[1][2], Sub(Mul(H[2][1], H[3][3]), Mul(H[2][3], H[3][1])))),
      Mul(H[1][3], Sub(Mul(H[2][1], H[3][2]), Mul(H[2][2], H[3][1]))))

\* ad - bc, one entry of the adjugate.
Minor(a, d, b, c) == Sub(Mul(a, d), Mul(b, c))

\* The null check and the adjugate over det.
InverseOver(a, b, c, d, e, f, g, h, i, det) ==
      IF AbsLtEps(det) THEN null
      ELSE << << Div(Minor(e, i, f, h), det), Div(Minor(c, h, b, i), det), Div(Minor(b, f, c, e), det) >>,
              << Div(Minor(f, g, d, i), det), Div(Minor(a, i, c, g), det), Div(Minor(c, d, a, f), det) >>,
              << Div(Minor(d, h, e, g), det), Div(Minor(b, g, a, h), det), Div(Minor(a, e, b, d), det) >> >>

\* The cofactors over det, laid out without the transposition of the adjugate.
invertHomographyCofactors(H) ==
  InverseOver(H[1][1], H[2][1], H[3][1], H[1][2], H[2][2], H[3][2], H[1][3], H[2][3], H[3][3],
              Det3(H))

invertHomography(H) ==
  InverseOver(H[1][1], H[1][2], H[1][3], H[2][1], H[2][2], H[2][3], H[3][1], H[3][2], H[3][3],
              Det3(H))

videoToField(videoX, videoY, H) ==
  LET w == Add(Add(Mul(H[3][1], videoX), Mul(H[3][2], videoY)), H[3][3])
  IN  IF AbsLtEps(w) THEN null
      ELSE << Div(Add(Add(Mul(H[1][1], videoX), Mul(H[1][2], videoY)), H[1][3]), w),
              Div(Add(Add(Mul(H[2][1], videoX), Mul(H[2][2], videoY)), H[2][3]), w) >>

\* The backward mapping without the division by w.
fieldToVideoUndivided(fieldX, fieldY, invH) ==
  LET w == Add(Add(Mul(invH[3][1], fieldX), Mul(invH[3][2], fieldY)), invH[3][3])
  IN  IF AbsLtEps(w) THEN null
      ELSE << Add(Add(Mul(invH[1][1], fieldX), Mul(invH[1][2], fieldY)), invH[1][3]),
              Add(Add(Mul(invH[2][1], fieldX), Mul(invH[2][2], fieldY)), invH[2][3]) >>

fieldToVideo(fieldX, fieldY, invH) ==
  LET w == Add(Add(Mul(invH[3][1], fieldX), Mul(invH[3][2], fieldY)), invH[3][3])
  IN  IF AbsLtEps(w) THEN null
      ELSE << Div(Add(Add(Mul(invH[1][1], fieldX), Mul(invH[1][2], fieldY)), invH[1][3]), w),
              Div(Add(Add(Mul(invH[2][1], fieldX), Mul(invH[2][2], fieldY)), invH[2][3]), w) >>

-----------------------------------------------------------------------------
(* The useHomography hook: its pure parts.  A calibration point is the      *)
(* record [videoX, videoY, pitchX, pitchY].                                 *)

calculateHomographyLocal(points) ==
  IF Len(points) < 4 THEN Threw("At least 4 points are required")
  ELSE LET dx == Sub(points[2].videoX, points[1].videoX)
           dy == Sub(points[3].videoY, points[1].videoY)
           \* (a - b || 1): 0 and NaN are falsy.
           sx == Div(Sub(points[2].pitchX, points[1].pitchX),
                     IF IsZero(dx) \/ IsNaN(dx) THEN One ELSE dx)
           sy == Div(Sub(points[3].pitchY, points[1].pitchY),
                     IF IsZero(dy) \/ IsNaN(dy) THEN One ELSE dy)
           tx == Sub(points[1].pitchX, Mul(points[1].videoX, sx))
           ty == Sub(points[1].pitchY, Mul(points[1].videoY, sy))
       IN  [threw |-> FALSE,
            matrix |-> << <<sx, Zero, tx>>, <<Zero, sy, ty>>, <<Zero, Zero, One>> >>]

\* transformPoint of the hook, on the stored matrix.
hookTransformPoint(homographyMatrix, videoX, videoY) ==
  IF homographyMatrix = null THEN null
  ELSE LET w == Add(Add(Mul(homographyMatrix[3][1], videoX),
                        Mul(homographyMatrix[3][2], videoY)), homographyMatrix[3][3])
       IN  IF AbsLtEps(w) THEN null
           ELSE [pitchX |-> Div(Add(Add(Mul(homographyMatrix[1][1], videoX),
                                        Mul(homographyMatrix[1][2], videoY)),
                                    homographyMatrix[1][3]), w),
                 pitchY |-> Div(Add(Add(Mul(homographyMatrix[2][1], videoX),
                                        Mul(homographyMatrix[2][2], videoY)),
                                    homographyMatrix[2][3]), w)]

-----------------------------------------------------------------------------
(* Inputs.  Calibration lists are prefixes of a few correspondence lists,   *)
(* each correspondence <<videoX, videoY, pitchX, pitchY>>; query points lie *)
(* on the grid 0..MaxCoord.                                                 *)

MaxPoints == 5
MaxCoord == 2
MaxBatch == 2
MaxEntry == 1
MaxPending == 2

Min(a, b) == IF a < b THEN a ELSE b

CalibrationLists == <<
  \* the 800x600 frame onto the 105x68 pitch, corner to corner
  << <<0,0,0,0>>, <<800,0,105,0>>, <<800,600,105,68>>, <<0,600,0,68>> >>,
  \* the same correspondences in another order
  << <<0,0,0,0>>, <<0,600,0,68>>, <<800,600,105,68>>, <<800,0,105,0>> >>,
  \* collinear video points
  << <<0,0,0,0>>, <<1,0,1,0>>, <<2,0,1,1>>, <<3,0,0,1>> >>,
  \* one correspondence given four times
  << <<1,1,2,2>>, <<1,1,2,2>>, <<1,1,2,2>>, <<1,1,2,2>> >>,
  \* a perspective view of the unit square
  << <<0,0,0,0>>, <<2,0,1,0>>, <<2,1,1,1>>, <<0,2,0,1>> >>,
  \* a shear (x, y) -> (x + y, y), five points
  << <<0,0,0,0>>, <<1,0,1,0>>, <<1,1,2,1>>, <<0,1,1,1>>, <<2,1,3,1>> >>,
  \* a translation (x, y) -> (x + 1, y + 2)
  << <<0,0,1,2>>, <<2,0,3,2>>, <<2,2,3,4>>, <<0,2,1,4>> >>,
  \* four exact corners and one inconsistent fifth correspondence
  << <<0,0,0,0>>, <<2,0,2,0>>, <<2,2,2,2>>, <<0,2,0,2>>, <<1,1,0,0>> >> >>

\* The first n video points and the first n pitch points of a list.
VideoPrefix(list, n) ==
  Force([i \in 1..n |-> <<Int2Num(list[i][1]), Int2Num(list[i][2])>>])
PitchPrefix(list, n) ==
  Force([i \in 1..n |-> <<Int2Num(list[i][3]), Int2Num(list[i][4])>>])
\* The first n correspondences as the hook's CalibrationPoint records.
PointsPrefix(list, n) ==
  Force([i \in 1..n |-> [videoX |-> Int2Num(list[i][1]), videoY |-> Int2Num(list[i][2]),
                         pitchX |-> Int2Num(list[i][3]), pitchY |-> Int2Num(list[i][4])]])

PrefixLengths(list) == 0..Min(MaxPoints, Len(list))

Grid == {<<Int2Num(x), Int2Num(y)>> : x \in 0..MaxCoord, y \in 0..MaxCoord}

IntMatrix(m) == Force([i \in 1..3 |-> Force([j \in 1..3 |-> Int2Num(m[i][j])])])

-----------------------------------------------------------------------------
(* Requests of the edge function.  A body is a record holding the fields    *)
(* that are present in the JSON document.                                   *)

CalibrateBodies ==
  UNION {{[video_points |-> VideoPrefix(CalibrationLists[k], i),
           pitch_points |-> PitchPrefix(CalibrationLists[k], j)] :
            i \in PrefixLengths(CalibrationLists[k]), j \in PrefixLengths(CalibrationLists[k])} :
         k \in DOMAIN CalibrationLists}
  \cup {[video_points |-> VideoPrefix(CalibrationLists[1], 4)],
        [pitch_points |-> PitchPrefix(CalibrationLists[1], 4)]}

\* The matrix of a calibration response whose entries were all NaN.
NullMatrix == Force([i \in 1..3 |-> Force([j \in 1..3 |-> NullNum])])

TransformMatrices ==
  { IntMatrix(<< <<1, 0, 0>>, <<0, 1, 0>>, <<0, 0, 1>> >>),
    IntMatrix(<< <<2, 0, 1>>, <<0, 3, 0>>, <<0, 0, 1>> >>),
    IntMatrix(<< <<1, 0, 0>>, <<0, 1, 0>>, <<1, 0, -1>> >>),
    NullMatrix }

TransformBodies ==
  {[video_point |-> p, matrix |-> M] : p \in Grid, M \in TransformMatrices}
  \cup {[video_point |-> << Zero, Zero >>]}
  \cup {[matrix |-> M] : M \in TransformMatrices}

DistanceBodies ==
  {[point1 |-> p, point2 |-> q, matrix |-> M] : p \in Grid, q \in Grid, M \in TransformMatrices}
  \cup {[point1 |-> << Zero, Zero >>, matrix |-> NullMatrix]}

\* The lists of at most n grid points.
RECURSIVE GridLists(_)
GridLists(n) ==
  IF n = 0 THEN {<<>>}
  ELSE GridLists(n - 1) \cup {Append(l, p) : l \in {m \in GridLists(n - 1) : Len(m) = n - 1}, p \in Grid}

\* Lists holding a JSON null where a point is expected.
MalformedLists == {<<null>>, << <<Zero, Zero>>, null >>, << null, <<One, One>> >>}

BatchBodies ==
  {[video_points |-> l, matrix |-> M] :
     l \in GridLists(MaxBatch) \cup MalformedLists, M \in TransformMatrices}

Bodies == CalibrateBodies \cup TransformBodies \cup DistanceBodies \cup BatchBodies

Has(body, f) == f \in DOMAIN body

-----------------------------------------------------------------------------
(* Deno.serve: the request handler of the edge function. *)

\* computeHomography on the bodies that hold both point lists, computed once
\* for the whole run; computeHomographyOf reads the result of a body.
ValidCalibrateBodies ==
  {b \in CalibrateBodies : Has(b, "video_points") /\ Has(b, "pitch_points")}
Computed == [b \in ValidCalibrateBodies |-> computeHomography(b.video_points, b.pitch_points)] @@ <<>>
computeHomographyOf(body) == Computed[body]

\* error.toFixed(2)
ToFixed2(x) ==
  LET a == ToNumber(x)
  IN  IF a = Irrep \/ ~IsFinite(a) THEN a
      ELSE Mul(Int2Num(SignNum(a)),
               Div(RoundNum(Mul(Mul(Int2Num(SignNum(a)), a), Int2Num(100))), Int2Num(100)))

Succeeded(result) == [threw |-> FALSE, result |-> result]

\* The result object built from computeHomography's return value.
CalibrateResult(body, c) ==
  IF c.threw THEN c
  ELSE Succeeded([success |-> TRUE,
                  matrix |-> JsonMatrix(c.matrix),
                  reprojection_error |->
                    JsonNumber(Div(RoundNum(Mul(c.error, Int2Num(100))), Int2Num(100))),
                  message |-> [points |-> Len(body.video_points),
                               error |-> ToFixed2(c.error)]])

\* The calibrate case without its check of the point counts.
CalibrateCaseAnyCount(body) ==
  IF ~Has(body, "video_points") \/ ~Has(body, "pitch_points")
  THEN Threw("video_points and pitch_points are required")
  ELSE IF Len(body.video_points) # Len(body.pitch_points)
  THEN Threw("Number of video and pitch points must match")
  ELSE CalibrateResult(body, computeHomographyOf(body))

\* The calibrate case without its check of equal lengths.
CalibrateCaseAnyLengths(body) ==
  IF ~Has(body, "video_points") \/ ~Has(body, "pitch_points")
  THEN Threw("video_points and pitch_points are required")
  ELSE IF Len(body.video_points) < 4 \/ Len(body.pitch_points) < 4
  THEN Threw("At least 4 calibration points are required")
  ELSE CalibrateResult(body, computeHomographyOf(body))

CalibrateCase(body) ==
  IF ~Has(body, "video_points") \/ ~Has(body, "pitch_points")
  THEN Threw("video_points and pitch_points are required")
  ELSE IF Len(body.video_points) < 4 \/ Len(body.pitch_points) < 4
  THEN Threw("At least 4 calibration points are required")
  ELSE IF Len(body.video_points) # Len(body.pitch_points)
  THEN Threw("Number of video and pitch points must match")
  ELSE CalibrateResult(body, computeHomographyOf(body))

TransformCase(body) ==
  IF ~Has(body, "video_point") \/ ~Has(body, "matrix")
  THEN Threw("video_point and matrix are required")
  ELSE Succeeded([success |-> TRUE,
                  pitch_point |-> JsonPoint(transformPoint(body.video_point, body.matrix))])

DistanceResult(pitchPoint1, pitchPoint2) ==
  Succeeded([success |-> TRUE,
             distance |-> JsonNumber(Div(RoundNum(Mul(calculateDistance(pitchPoint1, pitchPoint2),
                                                      Int2Num(10))), Int2Num(10))),
             pitch_point1 |-> JsonPoint(pitchPoint1),
             pitch_point2 |-> JsonPoint(pitchPoint2)])

DistanceCase(body) ==
  IF ~Has(body, "point1") \/ ~Has(body, "point2") \/ ~Has(body, "matrix")
  THEN Threw("point1, point2, and matrix are required")
  ELSE DistanceResult(transformPoint(body.point1, body.matrix),
                      transformPoint(body.point2, body.matrix))

\* const [x, y] = point throws a TypeError on a point that is null, inside
\* video_points.map.
BatchTransformCase(body) ==
  IF ~Has(body, "video_points") \/ ~Has(body, "matrix")
  THEN Threw("video_points and matrix are required")
  ELSE IF \E i \in DOMAIN body.video_points : body.video_points[i] = null
  THEN Threw("TypeError: point is not iterable")
  ELSE Succeeded([success |-> TRUE,
                  pitch_points |-> Force([i \in 1..Len(body.video_points) |->
                                     JsonPoint(transformPoint(body.video_points[i], body.matrix))])])

\* url.searchParams.get("action") || "calibrate"
ActionOf(param) == IF param = "" THEN "calibrate" ELSE param

\* The try block and its catch: a thrown error becomes the 400 response.
Switch(action, body) ==
  CASE action = "calibrate" -> CalibrateCase(body)
    [] action = "transform" -> TransformCase(body)
    [] action = "distance" -> DistanceCase(body)
    [] action = "batch_transform" -> BatchTransformCase(body)
    [] OTHER -> Threw("Unknown action")

\* A catch block that answers with the default status.
RespondAlwaysOk(outcome) ==
  IF outcome.threw
  THEN [status |-> 200, body |-> [success |-> FALSE, error |-> outcome.message]]
  ELSE [status |-> 200, body |-> outcome.result]

Respond(outcome) ==
  IF outcome.threw
  THEN [status |-> 400, body |-> [success |-> FALSE, error |-> outcome.message]]
  ELSE [status |-> 200, body |-> outcome.result]

Handle(param, body) == Respond(Switch(ActionOf(param), body))

-----------------------------------------------------------------------------
(* State.  A behaviour follows one program: an HTTP client of the edge      *)
(* function ("http"), a component holding the useHomography hook ("hook"),  *)
(* or the canvas helpers ("canvas").                                        *)

VARIABLES
  client,            \* which program this behaviour follows
  req,               \* the last request received by the edge function
  resp,              \* the response to it
  served,            \* the number of requests served: a behaviour follows one exchange,
                     \* the handler keeping no state between requests
  mode,              \* the hook in use: "local", "backend" or "supabase"
  homographyMatrix,  \* useState: the stored matrix, or null
  isCalibrating,     \* useState
  isCalibrated,      \* useState
  pending,           \* the calibrate calls awaiting their response (their points)
  lastCall,          \* the last hook call that returned, with its result
  canvas             \* the canvas helpers: their inputs and results

edgeVars == <<req, resp, served>>
hookVars == <<mode, homographyMatrix, isCalibrating, isCalibrated, pending, lastCall>>
vars == <<client, req, resp, served, mode, homographyMatrix, isCalibrating, isCalibrated,
          pending, lastCall, canvas>>

\* A hook call that returned: its name, its points and its return value.
Returned(op, points, ret) == [op |-> op, points |-> points, ret |-> ret, out |-> null]
NoCall == Returned("none", <<>>, FALSE)
IdleCanvas == [H |-> null, p |-> null, inverted |-> FALSE, invH |-> null,
               forwarded |-> FALSE, field |-> null, returned |-> FALSE, offset |-> 0,
               video |-> null]

IdleEdge == req = null /\ resp = null /\ served = 0
IdleHook ==
  /\ homographyMatrix = null
  /\ isCalibrating = FALSE
  /\ isCalibrated = FALSE
  /\ pending = <<>>
  /\ lastCall = NoCall

-----------------------------------------------------------------------------
(* The edge function serving requests. *)

\* One POST exchange: the request and the handler's response to it.
Exchange(param, body) ==
  /\ req' = [method |-> "POST", action |-> param, body |-> body]
  /\ resp' = Handle(param, body)
  /\ served' = served + 1
  /\ UNCHANGED <<client, hookVars, canvas>>

ServeCalibrate ==
  /\ client = "http"
  /\ served = 0
  /\ \E param \in {"", "calibrate"}, body \in Bodies : Exchange(param, body)

ServeTransform ==
  /\ client = "http"
  /\ served = 0
  /\ \E body \in Bodies : Exchange("transform", body)

ServeDistance ==
  /\ client = "http"
  /\ served = 0
  /\ \E body \in Bodies : Exchange("distance", body)

ServeBatchTransform ==
  /\ client = "http"
  /\ served = 0
  /\ \E body \in Bodies : Exchange("batch_transform", body)

\* Any other action name reaches the default branch.
ServeUnknown ==
  /\ client = "http"
  /\ served = 0
  /\ \E body \in Bodies : Exchange("reset", body)

\* The CORS preflight: answered before the body is read.
ServeOptions ==
  /\ client = "http"
  /\ served = 0
  /\ req' = [method |-> "OPTIONS", action |-> "", body |-> null]
  /\ resp' = [status |-> 200, body |-> null]
  /\ served' = served + 1
  /\ UNCHANGED <<client, hookVars, canvas>>

\* await req.json() rejects on a body that is not JSON.
ServeMalformed ==
  /\ client = "http"
  /\ served = 0
  /\ \E param \in {"", "calibrate", "transform", "distance", "batch_transform", "reset"} :
       req' = [method |-> "POST", action |-> param, body |-> null]
  /\ resp' = [status |-> 400, body |-> [success |-> FALSE, error |-> "SyntaxError"]]
  /\ served' = served + 1
  /\ UNCHANGED <<client, hookVars, canvas>>

NextEdge ==
  \/ ServeCalibrate
  \/ ServeTransform
  \/ ServeDistance
  \/ ServeBatchTransform
  \/ ServeUnknown
  \/ ServeOptions
  \/ ServeMalformed

InitEdge ==
  /\ client = "http"
  /\ IdleEdge
  /\ mode = "local"
  /\ IdleHook
  /\ canvas = IdleCanvas

SpecEdge == InitEdge /\ [][NextEdge]_vars

-----------------------------------------------------------------------------
(* The useHomography hook.  "local" and "backend" are useHomography.ts      *)
(* without and with an apiEndpoint; "supabase" is the variant that invokes  *)
(* the edge function.                                                       *)

\* The point lists given to calibrate: 3 points or more of the first six lists.
HookLists == SubSeq(CalibrationLists, 1, 6)
HookInputs ==
  UNION {{PointsPrefix(HookLists[k], n) : n \in {m \in PrefixLengths(HookLists[k]) : m >= 3}} :
         k \in DOMAIN HookLists}

\* What the backend of apiEndpoint may answer as data.matrix.
BackendMatrices ==
  {IntMatrix(<< <<2, 0, 1>>, <<0, 3, 0>>, <<0, 0, 1>> >>),
   IntMatrix(<< <<1, 0, 0>>, <<0, 1, 0>>, <<-1, 0, 1>> >>), null}

\* The body the hooks post: points.map(p => [p.videoX, p.videoY]) and the pitch side.
CalibrateBody(points) ==
  [video_points |-> Force([i \in 1..Len(points) |-> <<points[i].videoX, points[i].videoY>>]),
   pitch_points |-> Force([i \in 1..Len(points) |-> <<points[i].pitchX, points[i].pitchY>>])]

Without(seq, k) == SubSeq(seq, 1, k - 1) \o SubSeq(seq, k + 1, Len(seq))

\* calibrate with fewer than 4 points: the toast and return false.
CalibrateTooFew ==
  /\ client = "hook"
  /\ \E points \in HookInputs :
       /\ Len(points) < 4
       /\ lastCall' = Returned("calibrate", points, FALSE)
  /\ UNCHANGED <<client, edgeVars, mode, homographyMatrix, isCalibrating, isCalibrated,
                 pending, canvas>>

\* A setter that writes the first row of the value into the stored matrix.
setHomographyMatrixInPlace(previous, value) ==
  IF previous = null \/ value = null THEN value
  ELSE <<value[1], previous[2], previous[3]>>

\* The useState setter: the stored matrix becomes the value it is given.
setHomographyMatrix(previous, value) == value

\* The state after calculateHomographyLocal(points) in the try block or in the
\* fallback of the catch block, and the finally block.
StoreLocal(points, local) ==
  /\ homographyMatrix' = IF local.threw THEN homographyMatrix
                         ELSE setHomographyMatrix(homographyMatrix, local.matrix)
  /\ isCalibrated' = IF local.threw THEN isCalibrated ELSE TRUE
  /\ isCalibrating' = FALSE
  /\ lastCall' = Returned("calibrate", points, ~local.threw)

\* calibrate without apiEndpoint: no await, the call runs to its end.
CalibrateLocal ==
  /\ client = "hook"
  /\ mode = "local"
  /\ \E points \in HookInputs :
       /\ Len(points) >= 4
       /\ StoreLocal(points, calculateHomographyLocal(points))
  /\ UNCHANGED <<client, edgeVars, mode, pending, canvas>>

\* calibrate up to its await: setIsCalibrating(true) and the request is sent.
\* The call comes from the Calibrate button, disabled while isCalibrating.
CalibrateStart ==
  /\ client = "hook"
  /\ mode \in {"backend", "supabase"}
  /\ ~isCalibrating
  /\ \E points \in HookInputs :
       /\ Len(points) >= 4
       /\ pending' = Append(pending, points)
  /\ isCalibrating' = TRUE
  /\ UNCHANGED <<client, edgeVars, mode, homographyMatrix, isCalibrated, lastCall, canvas>>

\* The backend answers ok: setHomographyMatrix(data.matrix), whatever it holds.
BackendReplies ==
  /\ client = "hook"
  /\ mode = "backend"
  /\ \E k \in DOMAIN pending, matrix \in BackendMatrices :
       /\ homographyMatrix' = setHomographyMatrix(homographyMatrix, matrix)
       /\ lastCall' = Returned("calibrate", pending[k], TRUE)
       /\ pending' = Without(pending, k)
  /\ isCalibrated' = TRUE
  /\ isCalibrating' = FALSE
  /\ UNCHANGED <<client, edgeVars, mode, canvas>>

\* fetch rejects or the response is not ok: the catch block falls back to the
\* local estimate.
BackendFails ==
  /\ client = "hook"
  /\ mode = "backend"
  /\ \E k \in DOMAIN pending :
       /\ StoreLocal(pending[k], calculateHomographyLocal(pending[k]))
       /\ pending' = Without(pending, k)
  /\ UNCHANGED <<client, edgeVars, mode, canvas>>

\* The state after the edge function's response: a non-2xx status is an error
\* of invoke, which the catch block turns into return false.
StoreResponse(points, response) ==
  /\ homographyMatrix' = IF response.status = 200 /\ response.body.success
                         THEN setHomographyMatrix(homographyMatrix, response.body.matrix)
                         ELSE homographyMatrix
  /\ isCalibrated' = IF response.status = 200 /\ response.body.success
                     THEN TRUE ELSE isCalibrated
  /\ isCalibrating' = FALSE
  /\ lastCall' = Returned("calibrate", points, response.status = 200 /\ response.body.success)

\* supabase.functions.invoke('homography') resolves with the function's response.
SupabaseReplies ==
  /\ client = "hook"
  /\ mode = "supabase"
  /\ \E k \in DOMAIN pending :
       /\ StoreResponse(pending[k], Handle("", CalibrateBody(pending[k])))
       /\ pending' = Without(pending, k)
  /\ UNCHANGED <<client, edgeVars, mode, canvas>>

\* A failed invoke that clears the calibration.
SupabaseFailsClearing ==
  /\ client = "hook"
  /\ mode = "supabase"
  /\ \E k \in DOMAIN pending :
       /\ lastCall' = Returned("calibrate", pending[k], FALSE)
       /\ pending' = Without(pending, k)
  /\ isCalibrating' = FALSE
  /\ homographyMatrix' = null
  /\ isCalibrated' = FALSE
  /\ UNCHANGED <<client, edgeVars, mode, canvas>>

\* invoke resolves with an error (the function cannot be reached).
SupabaseFails ==
  /\ client = "hook"
  /\ mode = "supabase"
  /\ \E k \in DOMAIN pending :
       /\ lastCall' = Returned("calibrate", pending[k], FALSE)
       /\ pending' = Without(pending, k)
  /\ isCalibrating' = FALSE
  /\ UNCHANGED <<client, edgeVars, mode, homographyMatrix, isCalibrated, canvas>>

\* What the backend of apiEndpoint may answer as data.distance.
BackendDistances == {Zero, Rat(37, 2)}

\* Math.round(Math.sqrt(Math.pow(x2 - x1, 2) + Math.pow(y2 - y1, 2)))
RoundedLength(x1, y1, x2, y2) == RoundNum(Sqrt(Add(Sq(Sub(x2, x1)), Sq(Sub(y2, y1)))))

\* The fallback estimate of the hooks: the pixel distance divided by 10.
PixelEstimate(p, q) ==
  [distance |-> RoundNum(Div(Sqrt(Add(Sq(Sub(q[1], p[1])), Sq(Sub(q[2], p[2])))), Int2Num(10))),
   via |-> "pixels"]

\* The local calculation closing both hooks' calculateDistance, from the two
\* results of transformPoint and the pixel estimate.
LocalDistanceOf(transformed, estimate) ==
  IF transformed[1] = null \/ transformed[2] = null THEN estimate
  ELSE [distance |-> RoundedLength(transformed[1].pitchX, transformed[1].pitchY,
                                   transformed[2].pitchX, transformed[2].pitchY),
        via |-> "pitch"]

\* const p1 = transformPoint(x1, y1); const p2 = transformPoint(x2, y2)
Transformed(matrix, points) ==
  Force([i \in 1..2 |-> hookTransformPoint(matrix, points[i][1], points[i][2])])

LocalDistance(matrix, p, q, estimate) ==
  LocalDistanceOf(Transformed(matrix, <<p, q>>), estimate)

\* calculateDistance of useHomography.ts; reply is the backend's answer to
\* POST /distance, null when fetch rejects or the response is not ok; local
\* is the local calculation.
calculateDistanceBackend(apiEndpoint, matrix, reply, local) ==
  IF apiEndpoint /\ matrix # null /\ reply # null
  THEN [distance |-> reply, via |-> "backend"]
  ELSE local

\* The response of the edge function to the invoke of the supabase hook, which
\* names no action.
DistanceInvoked(matrix, p, q) ==
  Handle("", [point1 |-> p, point2 |-> q, matrix |-> JsonMatrix(matrix)])

\* calculateDistance of the supabase hook; reached tells whether invoke
\* resolved with the function's response.
calculateDistanceSupabase(matrix, reached, response, estimate, local) ==
  IF matrix = null THEN estimate
  ELSE IF reached /\ response.status = 200 /\ response.body.success
       THEN [distance |-> response.body.distance, via |-> "edge"]
       ELSE local

\* calculateDistance of the hook in use.
calculateDistanceIn(hook, matrix, reply, reached, response, estimate, local) ==
  IF hook = "supabase"
  THEN calculateDistanceSupabase(matrix, reached, response, estimate, local)
  ELSE calculateDistanceBackend(hook = "backend", matrix, reply, local)

calculateDistanceWith(hook, matrix, p, q, reply, reached, estimate) ==
  calculateDistanceIn(hook, matrix, reply, reached, DistanceInvoked(matrix, p, q), estimate,
                      LocalDistance(matrix, p, q, estimate))

Reset ==
  /\ client = "hook"
  /\ homographyMatrix' = setHomographyMatrix(homographyMatrix, null)
  /\ isCalibrated' = FALSE
  /\ lastCall' = Returned("reset", <<>>, FALSE)
  /\ UNCHANGED <<client, edgeVars, mode, isCalibrating, pending, canvas>>

TransformPoint ==
  /\ client = "hook"
  /\ \E p \in Grid :
       lastCall' = [op |-> "transformPoint", points |-> <<p>>, ret |-> FALSE,
                    out |-> hookTransformPoint(homographyMatrix, p[1], p[2])]
  /\ UNCHANGED <<client, edgeVars, mode, homographyMatrix, isCalibrating, isCalibrated,
                 pending, canvas>>

\* The first points of the measured pairs: the diagonal of the grid.
Diagonal == {p \in Grid : p[1] = p[2]}

\* The second points measured from p: p itself and its right-hand neighbour.
Neighbours(p) == {q \in Grid : q[2] = p[2] /\ (q[1] = p[1] \/ q[1] = Add(p[1], One))}

\* calculateDistance of either hook.  The call reads the matrix of the render
\* that created it; what happens during its await changes no input of it.
CalculateDistance ==
  /\ client = "hook"
  /\ \E p \in Diagonal : \E q \in Neighbours(p) :
       \E reply \in (IF mode = "backend" THEN BackendDistances ELSE {}) \cup {null} :
         \E reached \in (IF mode = "supabase" THEN BOOLEAN ELSE {FALSE}) :
           lastCall' = [op |-> "calculateDistance", points |-> <<p, q>>, ret |-> FALSE,
                        out |-> calculateDistanceWith(mode, homographyMatrix, p, q, reply,
                                                      reached, PixelEstimate(p, q))]
  /\ UNCHANGED <<client, edgeVars, mode, homographyMatrix, isCalibrating, isCalibrated,
                 pending, canvas>>

NextHook ==
  \/ CalibrateTooFew
  \/ CalibrateLocal
  \/ CalibrateStart
  \/ BackendReplies
  \/ BackendFails
  \/ SupabaseReplies
  \/ SupabaseFails
  \/ Reset
  \/ TransformPoint
  \/ CalculateDistance

InitHook ==
  /\ client = "hook"
  /\ IdleEdge
  /\ mode \in {"local", "backend", "supabase"}
  /\ IdleHook
  /\ canvas = IdleCanvas

SpecHook == InitHook /\ [][NextHook]_vars

-----------------------------------------------------------------------------
(* A calibration session of a hook whose caller does not wait: calibrate    *)
(* has no check of isCalibrating of its own, so a call made while a request *)
(* is pending sends another one.                                            *)

CalibrateWhilePending ==
  /\ client = "hook"
  /\ mode \in {"backend", "supabase"}
  /\ isCalibrating
  /\ Len(pending) < MaxPending
  /\ \E points \in HookInputs :
       /\ Len(points) >= 4
       /\ pending' = Append(pending, points)
  /\ isCalibrating' = TRUE
  /\ UNCHANGED <<client, edgeVars, mode, homographyMatrix, isCalibrated, lastCall, canvas>>

NextSession ==
  \/ CalibrateTooFew
  \/ CalibrateLocal
  \/ CalibrateStart
  \/ CalibrateWhilePending
  \/ BackendReplies
  \/ BackendFails
  \/ SupabaseReplies
  \/ SupabaseFails
  \/ Reset

SpecSession == InitHook /\ [][NextSession]_vars

\* The promise of a pending request settles: fetch and invoke resolve or
\* reject, and the call of calibrate runs to its return.  The step is the one
\* of BackendReplies, BackendFails, SupabaseReplies and SupabaseFails, which
\* take the request out of pending.
Settles == \E k \in DOMAIN pending : pending' = Without(pending, k)

FairHook == SpecHook /\ WF_pending(Settles)
FairSession == SpecSession /\ WF_pending(Settles)

-----------------------------------------------------------------------------
(* The canvas helpers applied to a homography H and a video point p: the    *)
(* pattern of the shape creators, invH = invertHomography(H), then          *)
(* videoToField(p, H), then fieldToVideo(field.x + offset, field.y, invH).  *)

MaxOffset == 1

CanvasShape(a, b, d, e, g, h) == IntMatrix(<< <<a, b, 1>>, <<d, e, 0>>, <<g, h, 1>> >>)
ScaledBy(M, s) == Force([i \in 1..3 |-> Force([j \in 1..3 |-> Mul(M[i][j], s)])])
\* A homography is a matrix up to scale: the factors 1e10 and 1e-5.
CanvasScales == {Mul(Int2Num(EpsInvRoot), Int2Num(EpsInvRoot)), Rat(1, EpsInvRoot)}

CanvasMatrices ==
  {CanvasShape(a, b, d, e, g, h) :
     a \in 0..MaxEntry, b \in {0, 1}, d \in {0, 1}, e \in 0..MaxEntry,
     g \in -MaxEntry..MaxEntry, h \in -MaxEntry..MaxEntry}
  \cup {ScaledBy(CanvasShape(a, 0, 0, e, g, h), s) :
          a \in 0..MaxEntry, e \in 0..MaxEntry,
          g \in -MaxEntry..MaxEntry, h \in -MaxEntry..MaxEntry, s \in CanvasScales}

InvertHomography ==
  /\ client = "canvas"
  /\ ~canvas.inverted
  /\ canvas' = [canvas EXCEPT !.inverted = TRUE, !.invH = invertHomography(canvas.H)]
  /\ UNCHANGED <<client, edgeVars, hookVars>>

VideoToField ==
  /\ client = "canvas"
  /\ ~canvas.forwarded
  /\ canvas' = [canvas EXCEPT !.forwarded = TRUE,
                              !.field = videoToField(canvas.p[1], canvas.p[2], canvas.H)]
  /\ UNCHANGED <<client, edgeVars, hookVars>>

\* Reached only behind the null checks on invH and on the field point.
FieldToVideo ==
  /\ client = "canvas"
  /\ canvas.inverted /\ canvas.invH # null
  /\ canvas.forwarded /\ canvas.field # null
  /\ ~canvas.returned
  /\ \E offset \in 0..MaxOffset :
       canvas' = [canvas EXCEPT !.returned = TRUE,
                                !.offset = offset,
                                !.video = fieldToVideo(Add(canvas.field[1], Int2Num(offset)),
                                                       canvas.field[2], canvas.invH)]
  /\ UNCHANGED <<client, edgeVars, hookVars>>

NextCanvas ==
  \/ InvertHomography
  \/ VideoToField
  \/ FieldToVideo

InitCanvas ==
  /\ client = "canvas"
  /\ IdleEdge
  /\ mode = "local"
  /\ IdleHook
  /\ \E H \in CanvasMatrices, p \in Grid : canvas = [IdleCanvas EXCEPT !.H = H, !.p = p]

SpecCanvas == InitCanvas /\ [][NextCanvas]_vars

-----------------------------------------------------------------------------
(* The shape creators of the canvas (AnnotationCanvas.tsx).  A shape is a   *)
(* record naming the fabric object returned and the numbers it was built    *)
(* from; colours and stroke options are left out.                           *)

\* a < b and a > b of JavaScript: false when either is NaN.
Less(a, b) == ~IsNaN(ToNumber(a)) /\ ~IsNaN(ToNumber(b)) /\ SignNum(Sub(a, b)) < 0
Greater(a, b) == Less(b, a)
\* Math.abs, Math.min and Math.max of two numbers.
AbsNum(x) == IF SignNum(ToNumber(x)) < 0 THEN Neg(x) ELSE ToNumber(x)
MathMin(a, b) ==
  IF IsNaN(ToNumber(a)) \/ IsNaN(ToNumber(b)) THEN NaN
  ELSE IF Less(b, a) THEN ToNumber(b) ELSE ToNumber(a)
MathMax(a, b) ==
  IF IsNaN(ToNumber(a)) \/ IsNaN(ToNumber(b)) THEN NaN
  ELSE IF Less(a, b) THEN ToNumber(b) ELSE ToNumber(a)

\* The sampled angles.  The creators sample numPoints equally spaced angles
\* (48, 64 or 32); the model samples 32 directions of rational cosine and
\* sine, each within 2 degrees of a multiple of 360/32 degrees, in the order
\* of the loop.
FirstQuadrant ==
  << <<Rat(1, 1), Rat(0, 1)>>, <<Rat(99, 101), Rat(20, 101)>>, <<Rat(12, 13), Rat(5, 13)>>,
     <<Rat(91, 109), Rat(60, 109)>>, <<Rat(21, 29), Rat(20, 29)>>, <<Rat(3, 5), Rat(4, 5)>>,
     <<Rat(5, 13), Rat(12, 13)>>, <<Rat(9, 41), Rat(40, 41)>> >>
QuarterTurn(d) == <<Neg(d[2]), d[1]>>
TurnAll(ds) == Force([i \in 1..Len(ds) |-> QuarterTurn(ds[i])])
Directions ==
  FirstQuadrant \o TurnAll(FirstQuadrant) \o TurnAll(TurnAll(FirstQuadrant))
    \o TurnAll(TurnAll(TurnAll(FirstQuadrant)))

\* The loop of a creator over the angles: the field point of each angle
\* projected back to video, and the points the loop pushed.
Projected(fieldCenter, radiusX, radiusY, invH) ==
  Force([i \in 1..Len(Directions) |->
           fieldToVideo(Add(fieldCenter[1], Mul(Directions[i][1], radiusX)),
                        Add(fieldCenter[2], Mul(Directions[i][2], radiusY)), invH)])
NotNull(v) == v # null
Pushed(samples) == SelectSeq(samples, NotNull)

\* const scale = 0.4 + (videoCenterY / 600) * 0.6
YScale(videoCenterY) == Add(Rat(2, 5), Mul(Div(videoCenterY, Int2Num(600)), Rat(3, 5)))

(* createPerspectiveCircle *)

\* The circle returned without a homography: the radius scaled by the row.
HeuristicCircle(videoCenterX, videoCenterY, radiusMeters) ==
  [kind |-> "Circle", left |-> videoCenterX, top |-> videoCenterY,
   radius |-> Mul(Mul(radiusMeters, Int2Num(10)), YScale(videoCenterY))]

\* The circle returned when the projection cannot be used: radiusMeters * 5.
UnprojectedCircle(videoCenterX, videoCenterY, radiusMeters) ==
  [kind |-> "Circle", left |-> videoCenterX, top |-> videoCenterY,
   radius |-> Mul(radiusMeters, Int2Num(5))]

CircleOfPoints(videoCenterX, videoCenterY, radiusMeters, videoPoints) ==
  IF Len(videoPoints) < 3 THEN UnprojectedCircle(videoCenterX, videoCenterY, radiusMeters)
  ELSE [kind |-> "Path", points |-> videoPoints]

CircleAbout(videoCenterX, videoCenterY, radiusMeters, invH, fieldCenter) ==
  IF fieldCenter = null THEN UnprojectedCircle(videoCenterX, videoCenterY, radiusMeters)
  ELSE CircleOfPoints(videoCenterX, videoCenterY, radiusMeters,
                      Pushed(Projected(fieldCenter, radiusMeters, radiusMeters, invH)))

CircleThrough(videoCenterX, videoCenterY, radiusMeters, H, invH) ==
  IF invH = null THEN UnprojectedCircle(videoCenterX, videoCenterY, radiusMeters)
  ELSE CircleAbout(videoCenterX, videoCenterY, radiusMeters, invH,
                   videoToField(videoCenterX, videoCenterY, H))

createPerspectiveCircle(videoCenterX, videoCenterY, radiusMeters, H) ==
  IF H = null THEN HeuristicCircle(videoCenterX, videoCenterY, radiusMeters)
  ELSE CircleThrough(videoCenterX, videoCenterY, radiusMeters, H, invertHomography(H))

(* createGroundEllipse *)

\* The path returned without a homography: the ellipse flattened by the row.
HeuristicEllipse(videoCenterX, videoCenterY, videoEdgeX, videoEdgeY) ==
  [kind |-> "Path",
   points |-> Force([i \in 1..Len(Directions) |->
                <<Add(videoCenterX, Mul(Directions[i][1], AbsNum(Sub(videoEdgeX, videoCenterX)))),
                  Add(videoCenterY,
                      Mul(Directions[i][2],
                          Mul(Mul(AbsNum(Sub(videoEdgeY, videoCenterY)), YScale(videoCenterY)),
                              Rat(1, 2))))>>])]

EllipseOfPoints(videoCenterX, videoCenterY, videoEdgeX, videoEdgeY, videoPoints) ==
  IF Len(videoPoints) < 3
  THEN HeuristicEllipse(videoCenterX, videoCenterY, videoEdgeX, videoEdgeY)
  ELSE [kind |-> "Path", points |-> videoPoints]

\* radius > 0.1 ? radius : Math.max(radiusX, radiusY)
EffectiveRadius(radius, radiusX, radiusY) ==
  IF Greater(radius, Rat(1, 10)) THEN radius ELSE MathMax(radiusX, radiusY)

EllipseOfRadii(videoCenterX, videoCenterY, videoEdgeX, videoEdgeY, invH, fieldCenter, radiusX, radiusY) ==
  EllipseOfPoints(videoCenterX, videoCenterY, videoEdgeX, videoEdgeY,
                  Pushed(Projected(fieldCenter, EffectiveRadius(radiusX, radiusX, radiusY),
                                   EffectiveRadius(radiusY, radiusX, radiusY), invH)))

EllipseAbout(videoCenterX, videoCenterY, videoEdgeX, videoEdgeY, invH, fieldCenter, fieldEdge) ==
  IF fieldCenter = null \/ fieldEdge = null
  THEN HeuristicEllipse(videoCenterX, videoCenterY, videoEdgeX, videoEdgeY)
  ELSE EllipseOfRadii(videoCenterX, videoCenterY, videoEdgeX, videoEdgeY, invH, fieldCenter,
                      AbsNum(Sub(fieldEdge[1], fieldCenter[1])),
                      AbsNum(Sub(fieldEdge[2], fieldCenter[2])))

EllipseThrough(videoCenterX, videoCenterY, videoEdgeX, videoEdgeY, H, invH) ==
  IF invH = null THEN HeuristicEllipse(videoCenterX, videoCenterY, videoEdgeX, videoEdgeY)
  ELSE EllipseAbout(videoCenterX, videoCenterY, videoEdgeX, videoEdgeY, invH,
                    videoToField(videoCenterX, videoCenterY, H),
                    videoToField(videoEdgeX, videoEdgeY, H))

createGroundEllipse(videoCenterX, videoCenterY, videoEdgeX, videoEdgeY, H) ==
  IF H = null THEN HeuristicEllipse(videoCenterX, videoCenterY, videoEdgeX, videoEdgeY)
  ELSE EllipseThrough(videoCenterX, videoCenterY, videoEdgeX, videoEdgeY, H, invertHomography(H))

(* createPerspectiveRectangle *)

\* The polygon returned without a homography: a trapezoid tapered by the rows.
TaperedBy(minX, maxX, minY, maxY, centerX, topWidth, bottomWidth) ==
  [kind |-> "Polygon",
   points |-> << <<Sub(centerX, Div(topWidth, Int2Num(2))), minY>>,
                 <<Add(centerX, Div(topWidth, Int2Num(2))), minY>>,
                 <<Add(centerX, Div(bottomWidth, Int2Num(2))), maxY>>,
                 <<Sub(centerX, Div(bottomWidth, Int2Num(2))), maxY>> >>]

\* const topScale = 0.6 + (minY / 600) * 0.4, and bottomScale of maxY.
RowScale(y) == Add(Rat(3, 5), Mul(Div(y, Int2Num(600)), Rat(2, 5)))

Tapered(minX, maxX, minY, maxY) ==
  TaperedBy(minX, maxX, minY, maxY, Div(Add(minX, maxX), Int2Num(2)),
            Mul(Sub(maxX, minX), RowScale(minY)), Mul(Sub(maxX, minX), RowScale(maxY)))

HeuristicRectangle(videoStartX, videoStartY, videoEndX, videoEndY) ==
  Tapered(MathMin(videoStartX, videoEndX), MathMax(videoStartX, videoEndX),
          MathMin(videoStartY, videoEndY), MathMax(videoStartY, videoEndY))

\* The Rect returned when the projection cannot be used: the box of the clicks.
UnprojectedRectangle(videoStartX, videoStartY, videoEndX, videoEndY) ==
  [kind |-> "Rect",
   left |-> MathMin(videoStartX, videoEndX), top |-> MathMin(videoStartY, videoEndY),
   width |-> AbsNum(Sub(videoEndX, videoStartX)), height |-> AbsNum(Sub(videoEndY, videoStartY))]

\* The field corners taken row by row: the last two exchanged.
FieldCornersByRows(fieldMinX, fieldMaxX, fieldMinY, fieldMaxY) ==
  << <<fieldMinX, fieldMinY>>, <<fieldMaxX, fieldMinY>>,
     <<fieldMinX, fieldMaxY>>, <<fieldMaxX, fieldMaxY>> >>

\* The field corners in the order of the literal: top-left, top-right,
\* bottom-right, bottom-left on the field.
FieldCorners(fieldMinX, fieldMaxX, fieldMinY, fieldMaxY) ==
  << <<fieldMinX, fieldMinY>>, <<fieldMaxX, fieldMinY>>,
     <<fieldMaxX, fieldMaxY>>, <<fieldMinX, fieldMaxY>> >>

\* The loop over the field corners: the first corner that does not project
\* returns the Rect.
RectangleOfCorners(videoStartX, videoStartY, videoEndX, videoEndY, videoCorners) ==
  IF \E i \in DOMAIN videoCorners : videoCorners[i] = null
  THEN UnprojectedRectangle(videoStartX, videoStartY, videoEndX, videoEndY)
  ELSE [kind |-> "Polygon", points |-> videoCorners]

RectangleOfField(videoStartX, videoStartY, videoEndX, videoEndY, invH, fieldCorners) ==
  RectangleOfCorners(videoStartX, videoStartY, videoEndX, videoEndY,
                     Force([i \in 1..4 |-> fieldToVideo(fieldCorners[i][1], fieldCorners[i][2],
                                                        invH)]))

RectangleAbout(videoStartX, videoStartY, videoEndX, videoEndY, invH, fieldStart, fieldEnd) ==
  IF fieldStart = null \/ fieldEnd = null
  THEN UnprojectedRectangle(videoStartX, videoStartY, videoEndX, videoEndY)
  ELSE RectangleOfField(videoStartX, videoStartY, videoEndX, videoEndY, invH,
                        FieldCorners(MathMin(fieldStart[1], fieldEnd[1]),
                                     MathMax(fieldStart[1], fieldEnd[1]),
                                     MathMin(fieldStart[2], fieldEnd[2]),
                                     MathMax(fieldStart[2], fieldEnd[2])))

RectangleThrough(videoStartX, videoStartY, videoEndX, videoEndY, H, invH) ==
  IF invH = null THEN UnprojectedRectangle(videoStartX, videoStartY, videoEndX, videoEndY)
  ELSE RectangleAbout(videoStartX, videoStartY, videoEndX, videoEndY, invH,
                      videoToField(videoStartX, videoStartY, H),
                      videoToField(videoEndX, videoEndY, H))

createPerspectiveRectangle(videoStartX, videoStartY, videoEndX, videoEndY, H) ==
  IF H = null THEN HeuristicRectangle(videoStartX, videoStartY, videoEndX, videoEndY)
  ELSE RectangleThrough(videoStartX, videoStartY, videoEndX, videoEndY, H, invertHomography(H))

(* createPerspectiveSpotlight *)

\* The group returned without a homography: radii and height scaled by the row.
HeuristicSpotlight(videoCenterX, videoCenterY) ==
  [kind |-> "Group", left |-> videoCenterX, top |-> videoCenterY,
   baseRadius |-> Mul(Int2Num(30), YScale(videoCenterY)),
   topRadius |-> Mul(Mul(Int2Num(30), YScale(videoCenterY)), Rat(3, 5)),
   height |-> Mul(Int2Num(80), YScale(videoCenterY)),
   ellipseRatio |-> Add(Rat(3, 10), Mul(Div(videoCenterY, Int2Num(600)), Rat(1, 5)))]

\* The two reduce calls: the index of the leftmost and of the rightmost point.
RECURSIVE LeftIndex(_, _, _)
LeftIndex(points, i, min) ==
  IF i > Len(points) THEN min
  ELSE IF Less(points[i][1], points[min][1]) THEN LeftIndex(points, i + 1, i)
  ELSE LeftIndex(points, i + 1, min)
RECURSIVE RightIndex(_, _, _)
RightIndex(points, i, max) ==
  IF i > Len(points) THEN max
  ELSE IF Greater(points[i][1], points[max][1]) THEN RightIndex(points, i + 1, i)
  ELSE RightIndex(points, i + 1, max)

\* The group of the projected base ring.  Its top ellipse, its sides and its
\* fill are drawn from the base points and the two indices alone.
SpotlightOfPoints(videoCenterX, videoCenterY, baseVideoPoints) ==
  IF Len(baseVideoPoints) < 8 THEN HeuristicSpotlight(videoCenterX, videoCenterY)
  ELSE [kind |-> "Group", base |-> baseVideoPoints,
        leftIdx |-> LeftIndex(baseVideoPoints, 1, 1),
        rightIdx |-> RightIndex(baseVideoPoints, 1, 1)]

SpotlightAbout(videoCenterX, videoCenterY, baseRadiusMeters, invH, fieldCenter) ==
  IF fieldCenter = null THEN HeuristicSpotlight(videoCenterX, videoCenterY)
  ELSE SpotlightOfPoints(videoCenterX, videoCenterY,
                         Pushed(Projected(fieldCenter, baseRadiusMeters, baseRadiusMeters, invH)))

SpotlightThrough(videoCenterX, videoCenterY, baseRadiusMeters, H, invH) ==
  IF invH = null THEN HeuristicSpotlight(videoCenterX, videoCenterY)
  ELSE SpotlightAbout(videoCenterX, videoCenterY, baseRadiusMeters, invH,
                      videoToField(videoCenterX, videoCenterY, H))

createPerspectiveSpotlight(videoCenterX, videoCenterY, H, baseRadiusMeters) ==
  IF H = null THEN HeuristicSpotlight(videoCenterX, videoCenterY)
  ELSE SpotlightThrough(videoCenterX, videoCenterY, baseRadiusMeters, H, invertHomography(H))

(* createPerspectivePlayerMarker: the radius and the scale its rings are    *)
(* drawn with.                                                              *)

\* let scale = 0.5 + (videoY / 600) * 0.5; let visualRadius = 20 * scale
HeuristicMarker(videoX, videoY) ==
  [kind |-> "Group", left |-> videoX, top |-> videoY, calibrated |-> FALSE,
   scale |-> Add(Rat(1, 2), Mul(Div(videoY, Int2Num(600)), Rat(1, 2))),
   visualRadius |-> Mul(Int2Num(20), Add(Rat(1, 2), Mul(Div(videoY, Int2Num(600)), Rat(1, 2))))]

MarkerOfRadius(videoX, videoY, visualRadius) ==
  [kind |-> "Group", left |-> videoX, top |-> videoY, calibrated |-> TRUE,
   scale |-> Div(visualRadius, Int2Num(20)), visualRadius |-> visualRadius]

MarkerOfTest(videoX, videoY, testPoint) ==
  IF testPoint = null THEN HeuristicMarker(videoX, videoY)
  ELSE MarkerOfRadius(videoX, videoY,
                      MathMax(Int2Num(12), MathMin(Int2Num(40), AbsNum(Sub(testPoint[1], videoX)))))

MarkerAbout(videoX, videoY, baseRadiusMeters, invH, fieldCenter) ==
  IF fieldCenter = null THEN HeuristicMarker(videoX, videoY)
  ELSE MarkerOfTest(videoX, videoY,
                    fieldToVideo(Add(fieldCenter[1], baseRadiusMeters), fieldCenter[2], invH))

MarkerThrough(videoX, videoY, baseRadiusMeters, H, invH) ==
  IF invH = null THEN HeuristicMarker(videoX, videoY)
  ELSE MarkerAbout(videoX, videoY, baseRadiusMeters, invH, videoToField(videoX, videoY, H))

createPerspectivePlayerMarker(videoX, videoY, H, baseRadiusMeters) ==
  IF H = null THEN HeuristicMarker(videoX, videoY)
  ELSE MarkerThrough(videoX, videoY, baseRadiusMeters, H, invertHomography(H))

(* The canvas drawing one shape with the matrix it was given. *)

\* The matrices given to the canvas: none, the shapes of the canvas helpers
\* with a unit diagonal, their multiples by 2e10 and one multiple by 1e-5.
ShapeMatrices ==
  {null, ScaledBy(CanvasShape(1, 0, 0, 1, 0, 0), Rat(1, EpsInvRoot))}
  \cup {CanvasShape(1, 0, 0, 1, g, h) : g \in -MaxEntry..MaxEntry, h \in -MaxEntry..MaxEntry}
  \cup {ScaledBy(CanvasShape(1, 0, 0, 1, g, h),
                 Mul(Int2Num(2), Mul(Int2Num(EpsInvRoot), Int2Num(EpsInvRoot)))) :
          g \in -MaxEntry..MaxEntry, h \in -MaxEntry..MaxEntry}

\* The radius the circle tool passes, in meters.
Radii == {One, Int2Num(3)}

Drawn(tool, start, end, shape) ==
  /\ client = "draw"
  /\ canvas.tool = "none"
  /\ canvas' = [canvas EXCEPT !.tool = tool, !.start = start, !.end = end, !.shape = shape]
  /\ UNCHANGED <<client, edgeVars, hookVars>>

DrawCircle ==
  \E start \in Grid, radiusMeters \in Radii :
    /\ client = "draw"
    /\ Drawn("circle", start, radiusMeters,
             createPerspectiveCircle(start[1], start[2], radiusMeters, canvas.H))

DrawEllipse ==
  \E start \in Grid, pointer \in Diagonal :
    /\ client = "draw"
    /\ Drawn("ellipse", start, pointer,
             createGroundEllipse(start[1], start[2], pointer[1], pointer[2], canvas.H))

DrawRectangle ==
  \E start \in Grid, pointer \in Diagonal :
    /\ client = "draw"
    /\ Drawn("rectangle", start, pointer,
             createPerspectiveRectangle(start[1], start[2], pointer[1], pointer[2], canvas.H))

DrawSpotlight ==
  \E pointer \in Grid :
    /\ client = "draw"
    /\ Drawn("spotlight", pointer, null,
             createPerspectiveSpotlight(pointer[1], pointer[2], canvas.H, Rat(3, 2)))

DrawPlayer ==
  \E pointer \in Grid :
    /\ client = "draw"
    /\ Drawn("player", pointer, null,
             createPerspectivePlayerMarker(pointer[1], pointer[2], canvas.H, Rat(4, 5)))

NextDraw ==
  \/ DrawCircle
  \/ DrawEllipse
  \/ DrawRectangle
  \/ DrawSpotlight
  \/ DrawPlayer

InitDraw ==
  /\ client = "draw"
  /\ IdleEdge
  /\ mode = "local"
  /\ IdleHook
  /\ \E H \in ShapeMatrices :
       canvas = [H |-> H, tool |-> "none", start |-> null, end |-> null, shape |-> null]

SpecDraw == InitDraw /\ [][NextDraw]_vars


(* The cylinder of createPerspectiveSpotlight: the rings, the sides and the *)
(* fill that the group is drawn with.  The rationals of the top ring stay   *)
(* in range for the diagonal matrices, the ones the cylinder is drawn with. *)

\* Math.min(...points.map(p => p[k])) and Math.max(...points.map(p => p[k])),
\* of points whose coordinates are numbers.
LeastOf(points, k) ==
  points[CHOOSE i \in 1..Len(points) :
           \A j \in 1..Len(points) : ~Less(points[j][k], points[i][k])][k]
MostOf(points, k) ==
  points[CHOOSE i \in 1..Len(points) :
           \A j \in 1..Len(points) : ~Greater(points[j][k], points[i][k])][k]

\* topScale = 0.5; the top ring is the base ring shrunk about the pointer's
\* column and flattened, in video space.
TopOfBase(videoCenterX, baseVideoPoints, minY, topCenterY) ==
  Force([i \in 1..Len(baseVideoPoints) |->
           <<Add(videoCenterX, Mul(Sub(baseVideoPoints[i][1], videoCenterX), Rat(1, 2))),
             Add(topCenterY, Mul(Mul(Sub(baseVideoPoints[i][2], minY), Rat(1, 2)), Rat(3, 10)))>>])

\* sidesPath and fillPath: the segments and the polygon between the rings.
CylinderOfRings(baseVideoPoints, topVideoPoints, leftIdx, rightIdx) ==
  [kind |-> "Group", base |-> baseVideoPoints, top |-> topVideoPoints,
   leftIdx |-> leftIdx, rightIdx |-> rightIdx,
   sides |-> << <<baseVideoPoints[leftIdx], topVideoPoints[leftIdx]>>,
                <<baseVideoPoints[rightIdx], topVideoPoints[rightIdx]>> >>,
   fill |-> <<baseVideoPoints[leftIdx], topVideoPoints[leftIdx],
              topVideoPoints[rightIdx], baseVideoPoints[rightIdx]>>]

\* cylinderHeight = baseWidth * 1.5; topCenterY = minY - cylinderHeight
CylinderAbove(videoCenterX, baseVideoPoints, minX, maxX, minY, leftIdx, rightIdx) ==
  CylinderOfRings(baseVideoPoints,
                  TopOfBase(videoCenterX, baseVideoPoints, minY,
                            Sub(minY, Mul(Sub(maxX, minX), Rat(3, 2)))),
                  leftIdx, rightIdx)

CylinderOf(videoCenterX, group) ==
  IF "base" \notin DOMAIN group THEN group
  ELSE CylinderAbove(videoCenterX, group.base,
                     LeastOf(group.base, 1), MostOf(group.base, 1), LeastOf(group.base, 2),
                     group.leftIdx, group.rightIdx)

MaxScale == 4

CylinderMatrices == {CanvasShape(a, 0, 0, e, 0, 0) : a \in 1..MaxScale, e \in 1..MaxScale}

DrawCylinder ==
  \E pointer \in Grid :
    \E group \in {createPerspectiveSpotlight(pointer[1], pointer[2], canvas.H, Rat(3, 2))} :
      /\ client = "draw"
      /\ Drawn("spotlight", pointer, null, CylinderOf(pointer[1], group))

InitCylinder ==
  /\ client = "draw"
  /\ IdleEdge
  /\ mode = "local"
  /\ IdleHook
  /\ \E H \in CylinderMatrices :
       canvas = [H |-> H, tool |-> "none", start |-> null, end |-> null, shape |-> null]

SpecCylinder == InitCylinder /\ [][DrawCylinder]_vars

-----------------------------------------------------------------------------
(* The edge function and the hooks, the programs that calibrate. *)

InitCalibration == InitEdge \/ InitHook
NextCalibration == NextEdge \/ NextHook
SpecCalibration == InitCalibration /\ [][NextCalibration]_vars

-----------------------------------------------------------------------------
(* The three programs together. *)

Init == InitEdge \/ InitHook \/ InitCanvas
Next == NextEdge \/ NextHook \/ NextCanvas
Spec == Init /\ [][Next]_vars

-----------------------------------------------------------------------------
(* Properties. *)

\* The last exchange was a POST that reached the calibrate case with both
\* point sequences present.
CalibrateServed ==
  /\ client = "http"
  /\ served > 0
  /\ req.method = "POST"
  /\ req.body # null
  /\ ActionOf(req.action) = "calibrate"
  /\ Has(req.body, "video_points")
  /\ Has(req.body, "pitch_points")

\* The last hook call that returned was calibrate(points) on a hook whose
\* matrix comes from the code of this repository.
CalibrateReturned ==
  /\ client = "hook"
  /\ mode \in {"local", "supabase"}
  /\ lastCall.op = "calibrate"

Cross(p, q, r) ==
  Sub(Mul(Sub(q[1], p[1]), Sub(r[2], p[2])), Mul(Sub(q[2], p[2]), Sub(r[1], p[1])))
AllCollinear(pts) ==
  \A i \in DOMAIN pts, j \in DOMAIN pts, k \in DOMAIN pts : IsZero(Cross(pts[i], pts[j], pts[k]))
HasDuplicate(pts) == \E i \in DOMAIN pts, j \in DOMAIN pts : i < j /\ pts[i] = pts[j]
Degenerate(pts) == AllCollinear(pts) \/ HasDuplicate(pts)
\* Pairwise distinct points, no three of them on a line.
GeneralPosition(pts) ==
  \A i \in DOMAIN pts, j \in DOMAIN pts, k \in DOMAIN pts :
    (i < j /\ j < k) => ~IsZero(Cross(pts[i], pts[j], pts[k]))

ErrorResponse(message) == [status |-> 400, body |-> [success |-> FALSE, error |-> message]]

\* C1: a calibrate request of at least 4 correspondences whose video points or
\* pitch points are degenerate (all on one line, or with a repeated point) is
\* answered with a failure and never with a matrix.
C1_DegenerateRejected ==
  (/\ CalibrateServed
   /\ Len(req.body.video_points) >= 4
   /\ Len(req.body.video_points) = Len(req.body.pitch_points)
   /\ (Degenerate(req.body.video_points) \/ Degenerate(req.body.pitch_points)))
  => (resp.status = 400 /\ ~resp.body.success /\ ~Has(resp.body, "matrix"))

\* What a call with fewer than 4 points has answered.
C2_TooFewInState ==
  /\ (CalibrateServed /\ (Len(req.body.video_points) < 4 \/ Len(req.body.pitch_points) < 4))
       => resp = ErrorResponse("At least 4 calibration points are required")
  /\ (CalibrateServed /\ Len(req.body.video_points) < 4)
       => computeHomography(req.body.video_points, req.body.pitch_points)
            = Threw("At least 4 points required")
  /\ (client = "hook" /\ lastCall.op = "calibrate" /\ Len(lastCall.points) < 4)
       => /\ ~lastCall.ret
          /\ calculateHomographyLocal(lastCall.points) = Threw("At least 4 points are required")
\* What the step of a hook call with fewer than 4 points leaves unchanged.
C2_TooFewInStep ==
  (client = "hook" /\ lastCall' # lastCall /\ lastCall'.op = "calibrate"
     /\ Len(lastCall'.points) < 4)
  => UNCHANGED <<homographyMatrix, isCalibrated, isCalibrating, pending>>

\* C2: with fewer than 4 points on either side the calibrate action answers the
\* 400 error "At least 4 calibration points are required"; computeHomography
\* and calculateHomographyLocal throw on fewer than 4 correspondences; the
\* hooks' calibrate returns false, and the step of that call leaves the stored
\* matrix and the flags as they were.
C2_TooFewPointsRejected == []C2_TooFewInState /\ [][C2_TooFewInStep]_vars

\* C2 witness: the edge function has refused 3 video points against 3 pitch points.
C2_Witness ==
  /\ CalibrateServed
  /\ Len(req.body.video_points) = 3
  /\ Len(req.body.pitch_points) = 3
  /\ resp.status = 400

\* C3 as stated: sequences of different lengths are refused with the length
\* mismatch error.
C3_MismatchAlwaysReported ==
  (CalibrateServed /\ Len(req.body.video_points) # Len(req.body.pitch_points))
  => resp = ErrorResponse("Number of video and pitch points must match")

\* C3 amended: sequences of different lengths are refused and no matrix is
\* returned; the error is the length mismatch when both sequences hold at
\* least 4 points and the too-few-points error otherwise.
C3_MismatchRefused ==
  (CalibrateServed /\ Len(req.body.video_points) # Len(req.body.pitch_points))
  => /\ resp.status = 400
     /\ ~Has(resp.body, "matrix")
     /\ resp.body.error =
          IF Len(req.body.video_points) >= 4 /\ Len(req.body.pitch_points) >= 4
          THEN "Number of video and pitch points must match"
          ELSE "At least 4 calibration points are required"

\* C3 witness: 4 video points against 5 pitch points, refused for the mismatch.
C3_Witness ==
  /\ CalibrateServed
  /\ Len(req.body.video_points) = 4
  /\ Len(req.body.pitch_points) = 5
  /\ resp.body.error = "Number of video and pitch points must match"

\* The homogeneous divisor and the two row sums divided by it.
HomogeneousW(H, p) == Add(Add(Mul(H[3][1], p[1]), Mul(H[3][2], p[2])), H[3][3])
Dehomogenized(H, p) ==
  << Div(Add(Add(Mul(H[1][1], p[1]), Mul(H[1][2], p[2])), H[1][3]), HomogeneousW(H, p)),
     Div(Add(Add(Mul(H[2][1], p[1]), Mul(H[2][2], p[2])), H[2][3]), HomogeneousW(H, p)) >>

\* The last exchange was a POST that reached the case of the action with the
\* fields it needs.
Served(action, fields) ==
  /\ client = "http"
  /\ served > 0
  /\ req.method = "POST"
  /\ req.body # null
  /\ req.action = action
  /\ \A f \in fields : Has(req.body, f)

\* What a mapper that refuses |w| < 1e-10 answers for the points ps.
Refuses(H, ps) == \E i \in DOMAIN ps : AbsLtEps(HomogeneousW(H, ps[i]))

\* C4: every mapper fails when |w| < 1e-10 and otherwise returns the two row
\* sums divided by w: the transform, distance and batch_transform actions, the
\* hook's transformPoint, and the canvas's videoToField and fieldToVideo.
C4_DegenerateProjectionFails ==
  /\ Served("transform", {"video_point", "matrix"})
       => IF Refuses(req.body.matrix, <<req.body.video_point>>)
          THEN resp.status = 400
          ELSE /\ resp.status = 200
               /\ resp.body.pitch_point
                    = JsonPoint(Dehomogenized(req.body.matrix, req.body.video_point))
  /\ Served("distance", {"point1", "point2", "matrix"})
       => IF Refuses(req.body.matrix, <<req.body.point1, req.body.point2>>)
          THEN resp.status = 400
          ELSE /\ resp.status = 200
               /\ resp.body.pitch_point1 = JsonPoint(Dehomogenized(req.body.matrix, req.body.point1))
               /\ resp.body.pitch_point2 = JsonPoint(Dehomogenized(req.body.matrix, req.body.point2))
  /\ (Served("batch_transform", {"video_points", "matrix"})
        /\ \A i \in DOMAIN req.body.video_points : req.body.video_points[i] # null)
       => IF Refuses(req.body.matrix, req.body.video_points)
          THEN resp.status = 400
          ELSE /\ resp.status = 200
               /\ \A i \in DOMAIN req.body.video_points :
                    resp.body.pitch_points[i]
                      = JsonPoint(Dehomogenized(req.body.matrix, req.body.video_points[i]))
  /\ (client = "hook" /\ lastCall.op = "transformPoint" /\ homographyMatrix # null)
       => IF Refuses(homographyMatrix, lastCall.points)
          THEN lastCall.out = null
          ELSE lastCall.out
                 = [pitchX |-> Dehomogenized(homographyMatrix, lastCall.points[1])[1],
                    pitchY |-> Dehomogenized(homographyMatrix, lastCall.points[1])[2]]
  /\ canvas.forwarded
       => IF Refuses(canvas.H, <<canvas.p>>)
          THEN canvas.field = null
          ELSE canvas.field = Dehomogenized(canvas.H, canvas.p)
  /\ canvas.returned
       => IF Refuses(canvas.invH, << <<Add(canvas.field[1], Int2Num(canvas.offset)), canvas.field[2]>> >>)
          THEN canvas.video = null
          ELSE canvas.video
                 = Dehomogenized(canvas.invH,
                                 <<Add(canvas.field[1], Int2Num(canvas.offset)), canvas.field[2]>>)

\* The determinant by the rule of Sarrus.
Sarrus(H) ==
  Sub(Add(Add(Mul(Mul(H[1][1], H[2][2]), H[3][3]), Mul(Mul(H[1][2], H[2][3]), H[3][1])),
          Mul(Mul(H[1][3], H[2][1]), H[3][2])),
      Add(Add(Mul(Mul(H[1][3], H[2][2]), H[3][1]), Mul(Mul(H[1][2], H[2][1]), H[3][3])),
          Mul(Mul(H[1][1], H[2][3]), H[3][2])))
Identity3 == IntMatrix(<< <<1, 0, 0>>, <<0, 1, 0>>, <<0, 0, 1>> >>)

\* C5: invertHomography answers null exactly when |det H| < 1e-10; otherwise
\* its result M satisfies M x H = H x M = I; and fieldToVideo is never applied
\* to a null inverse.
C5_InverseOrSingular ==
  /\ canvas.inverted => ((canvas.invH = null) <=> AbsLtEps(Sarrus(canvas.H)))
  /\ (canvas.inverted /\ canvas.invH # null)
       => /\ matMul(canvas.invH, canvas.H) = Identity3
          /\ matMul(canvas.H, canvas.invH) = Identity3
  /\ canvas.returned => canvas.invH # null

\* C5 witness: a matrix with a projective row has been inverted.
C5_Witness ==
  /\ canvas.inverted
  /\ canvas.invH # null
  /\ canvas.H[3][1] # Zero
  /\ canvas.H[3][2] # Zero

Invertible(M) == M # null /\ IsFinite(Sarrus(M)) /\ ~IsZero(Sarrus(M))
VideoOf(points) == CalibrateBody(points).video_points
PitchOf(points) == CalibrateBody(points).pitch_points

\* C7: a successful calibration on at least 4 correspondences in general
\* position (video side and pitch side) yields an invertible matrix, from the
\* edge function and from the hooks.
C7_CalibratedInvertible ==
  /\ (CalibrateServed /\ resp.status = 200
        /\ GeneralPosition(req.body.video_points) /\ GeneralPosition(req.body.pitch_points))
       => Invertible(resp.body.matrix)
  /\ (CalibrateReturned /\ lastCall.ret
        /\ GeneralPosition(VideoOf(lastCall.points)) /\ GeneralPosition(PitchOf(lastCall.points)))
       => Invertible(homographyMatrix)

\* C8: every matrix of a successful calibration has H[2][2] = 1.
C8_UnitCorner ==
  /\ (CalibrateServed /\ resp.status = 200) => resp.body.matrix[3][3] = One
  /\ (CalibrateReturned /\ lastCall.ret) => homographyMatrix[3][3] = One

\* Affine maps of the calibration lists: the pitch scaling of the 800 x 600
\* frame, a shear and a translation.
AffineMaps ==
  { << <<Rat(21, 160), Zero, Zero>>, <<Zero, Rat(17, 150), Zero>>, <<Zero, Zero, One>> >>,
    IntMatrix(<< <<1, 1, 0>>, <<0, 1, 0>>, <<0, 0, 1>> >>),
    IntMatrix(<< <<1, 0, 1>>, <<0, 1, 2>>, <<0, 0, 1>> >>) }
\* The correspondences v[i] -> p[i] all belong to the affine map M.
AffineImage(M, v, p) ==
  /\ Len(v) >= 4
  /\ ~Degenerate(v)
  /\ \A i \in DOMAIN v : Dehomogenized(M, v[i]) = p[i]
\* Points at which an estimate is compared with the map.
Probes == Grid \cup {<<Int2Num(400), Int2Num(300)>>}
SameMap(H, M) == H # null /\ \A c \in Probes : Dehomogenized(H, c) = Dehomogenized(M, c)

\* C9: calibrating on correspondences of an affine map recovers the map, so
\* that the frame corners [0,0],[800,0],[800,600],[0,600] -> pitch corners
\* send [400,300] to [52.5,34]; for the edge function with reprojection error 0.
C9_AffineRecovered ==
  \A M \in AffineMaps :
    /\ (CalibrateServed /\ resp.status = 200
          /\ AffineImage(M, req.body.video_points, req.body.pitch_points))
         => (SameMap(resp.body.matrix, M) /\ resp.body.reprojection_error = Zero)
    /\ (CalibrateReturned /\ lastCall.ret
          /\ AffineImage(M, VideoOf(lastCall.points), PitchOf(lastCall.points)))
         => SameMap(homographyMatrix, M)

Reverse(s) == Force([i \in 1..Len(s) |-> s[Len(s) + 1 - i]])
Rotate(s) == Tail(s) \o <<Head(s)>>
SwapFirstTwo(s) == <<s[2], s[1]>> \o SubSeq(s, 3, Len(s))
Reordered(k, s) == IF k = 1 THEN Reverse(s) ELSE IF k = 2 THEN Rotate(s) ELSE SwapFirstTwo(s)

\* C10: calibrating on the same correspondences in another order (reversed,
\* rotated, or with the first two exchanged) gives the same matrix.
C10_OrderIndependent ==
  \A k \in 1..3 :
    /\ (CalibrateServed /\ resp.status = 200)
         => Handle("calibrate", [video_points |-> Reordered(k, req.body.video_points),
                                 pitch_points |-> Reordered(k, req.body.pitch_points)]).body.matrix
              = resp.body.matrix
    /\ (CalibrateReturned /\ lastCall.ret /\ mode = "local")
         => calculateHomographyLocal(Reordered(k, lastCall.points)).matrix = homographyMatrix
    /\ (CalibrateReturned /\ lastCall.ret /\ mode = "supabase")
         => Handle("", CalibrateBody(Reordered(k, lastCall.points))).body.matrix = homographyMatrix


-----------------------------------------------------------------------------
\* The backward mapping of a field point through H as the shape creators
\* compute it: invert H, then map through the inverse.
Backward(H, field, offset) ==
  IF invertHomography(H) = null THEN null
  ELSE fieldToVideo(Add(field[1], Int2Num(offset)), field[2], invertHomography(H))

\* C11: scale invariance.  Replacing the homography H by k*H, for a nonzero
\* constant k, changes neither the result nor the success or failure of the
\* forward mapping, of the inversion, or of the backward mapping of any point.
C11_ScaleInvariant ==
  \A k \in CanvasScales :
    /\ canvas.forwarded =>
         videoToField(canvas.p[1], canvas.p[2], ScaledBy(canvas.H, k)) = canvas.field
    /\ canvas.inverted =>
         ((invertHomography(ScaledBy(canvas.H, k)) = null) <=> (canvas.invH = null))
    /\ canvas.returned =>
         Backward(ScaledBy(canvas.H, k), canvas.field, canvas.offset) = canvas.video


-----------------------------------------------------------------------------
\* Both points of a measurement have finite images under the mapper.
FinitePoint(a) == IsFinite(a[1]) /\ IsFinite(a[2])

\* The distance action served two points with one finite image.
C12_EdgeInState ==
  (Served("distance", {"point1", "point2", "matrix"}) /\ resp.status = 200
     /\ FinitePoint(transformPoint(req.body.point1, req.body.matrix))
     /\ transformPoint(req.body.point1, req.body.matrix)
          = transformPoint(req.body.point2, req.body.matrix))
  => resp.body.distance = Zero

\* The step of a hook's calculateDistance that measured, on the pitch, two
\* points with one image under the stored matrix.
C12_HookInStep ==
  (client = "hook" /\ lastCall' # lastCall /\ lastCall'.op = "calculateDistance"
     /\ lastCall'.out.via = "pitch"
     /\ hookTransformPoint(homographyMatrix, lastCall'.points[1][1], lastCall'.points[1][2])
          = hookTransformPoint(homographyMatrix, lastCall'.points[2][1], lastCall'.points[2][2]))
  => lastCall'.out.distance = Zero

\* C12: the distance of two points that map to the same field point is 0, in
\* particular of a point to itself where the mapping is defined, both in the
\* distance action of the edge function and in the local calculation of the
\* hooks' calculateDistance.
C12_SameImageZeroDistance == []C12_EdgeInState /\ [][C12_HookInStep]_vars

\* C12 witness: a hook has measured 0 between two different video points that
\* its stored matrix maps to one field point.
C12_Witness ==
  /\ client = "hook"
  /\ lastCall.op = "calculateDistance"
  /\ lastCall.points[1] # lastCall.points[2]
  /\ lastCall.out.via = "pitch"
  /\ lastCall.out.distance = Zero
  /\ hookTransformPoint(homographyMatrix, lastCall.points[1][1], lastCall.points[1][2])
       = hookTransformPoint(homographyMatrix, lastCall.points[2][1], lastCall.points[2][2])


-----------------------------------------------------------------------------
\* C13: at most one calibration request of a hook is outstanding: a calibrate
\* called while isCalibrating is true starts no second request.
C13_SingleOutstanding == client = "hook" => Len(pending) <= 1


-----------------------------------------------------------------------------
\* The matrices a successful calibrate of the hook in use may store for points.
CalibrationOutcomes(points) ==
  CASE mode = "local" -> {calculateHomographyLocal(points).matrix}
    [] mode = "backend" -> BackendMatrices \cup {calculateHomographyLocal(points).matrix}
    [] mode = "supabase" -> {Handle("", CalibrateBody(points)).body.matrix}

\* A step of a read: the stored matrix stays as it was and the answer is that
\* of the whole matrix stored before the step.
C14_ReadInStep ==
  (client = "hook" /\ lastCall' # lastCall
     /\ lastCall'.op \in {"transformPoint", "calculateDistance"})
  => /\ homographyMatrix' = homographyMatrix
     /\ lastCall'.op = "transformPoint"
          => lastCall'.out = hookTransformPoint(homographyMatrix, lastCall'.points[1][1],
                                                lastCall'.points[1][2])
     /\ (lastCall'.op = "calculateDistance" /\ lastCall'.out.via \in {"pitch", "pixels"})
          => lastCall'.out = LocalDistance(homographyMatrix, lastCall'.points[1],
                                           lastCall'.points[2],
                                           PixelEstimate(lastCall'.points[1],
                                                         lastCall'.points[2]))

\* A step that changes the stored matrix: reset stores null, a calibrate that
\* returned true stores one whole result for its points.
C14_WriteInStep ==
  (client = "hook" /\ homographyMatrix' # homographyMatrix)
  => \/ lastCall'.op = "reset" /\ homographyMatrix' = null
     \/ /\ lastCall'.op = "calibrate"
        /\ lastCall'.ret
        /\ homographyMatrix' \in CalibrationOutcomes(lastCall'.points)

-----------------------------------------------------------------------------
\* The fields each action requires of the body.
RequiredFields(action) ==
  CASE action = "calibrate" -> {"video_points", "pitch_points"}
    [] action = "transform" -> {"video_point", "matrix"}
    [] action = "distance" -> {"point1", "point2", "matrix"}
    [] action = "batch_transform" -> {"video_points", "matrix"}
    [] OTHER -> {}

\* The requests the claim lists as failures: a body that is not JSON, an
\* unknown action, a missing field, fewer than 4 points or sides of different
\* lengths.
Faulty(request) ==
  \/ request.body = null
  \/ ActionOf(request.action) \notin {"calibrate", "transform", "distance", "batch_transform"}
  \/ ~(RequiredFields(ActionOf(request.action)) \subseteq DOMAIN request.body)
  \/ /\ ActionOf(request.action) = "calibrate"
     /\ \/ Len(request.body.video_points) < 4
        \/ Len(request.body.pitch_points) < 4
        \/ Len(request.body.video_points) # Len(request.body.pitch_points)

\* The response is the failure document with a non-2xx status.
FailureDocument(response) ==
  /\ response.status \notin 200..299
  /\ response.body # null
  /\ DOMAIN response.body = {"success", "error"}
  /\ response.body.success = FALSE
  /\ response.body.error \in STRING

\* The response carries the success flag, true exactly with a 2xx status, and
\* a failure is answered with the failure document.
Flagged(request, response) ==
  /\ response.body # null
  /\ "success" \in DOMAIN response.body
  /\ response.body.success \in BOOLEAN
  /\ response.body.success <=> response.status \in 200..299
  /\ ~response.body.success => FailureDocument(response)
  /\ Faulty(request) => FailureDocument(response)

\* C15 as stated: every response of the endpoint carries a success flag, and
\* every failure is answered {success: false, error: message} with a non-2xx
\* status.
C15_EveryResponseFlagged ==
  (client = "http" /\ served > 0) => Flagged(req, resp)

\* C15 amended: every response to a POST carries a success flag, and every
\* failure is answered {success: false, error: message} with a non-2xx status;
\* the CORS preflight is answered with an empty body; every request is answered.
C15_PostResponsesFlagged ==
  (client = "http" /\ served > 0)
  => /\ resp # null
     /\ req.method = "POST" => Flagged(req, resp)
     /\ req.method = "OPTIONS" => resp.body = null /\ resp.status \in 200..299

\* C15 witness: a body that is not JSON has been answered with the failure document.
C15_Witness ==
  /\ client = "http"
  /\ served > 0
  /\ req.method = "POST"
  /\ req.body = null
  /\ FailureDocument(resp)


-----------------------------------------------------------------------------
\* C16: batch_transform answers one entry per input point, in input order; a
\* point that cannot be transformed (a divisor w near 0, a malformed point)
\* degrades its own entry only: the batch succeeds and every other entry is
\* the transform of its point.
C16_BatchDegradesPerEntry ==
  Served("batch_transform", {"video_points", "matrix"})
  => /\ resp.status = 200
     /\ resp.body.success
     /\ Len(resp.body.pitch_points) = Len(req.body.video_points)
     /\ \A i \in DOMAIN req.body.video_points :
          (/\ req.body.video_points[i] # null
           /\ ~AbsLtEps(HomogeneousW(req.body.matrix, req.body.video_points[i])))
          => resp.body.pitch_points[i]
               = JsonPoint(Dehomogenized(req.body.matrix, req.body.video_points[i]))

(* ---------------------------------------------------------------------- *)
(* The curves of the canvas: which samples remain and when they are used.  *)

\* The stored matrix inverts and the clicked point maps onto the pitch.
Anchored(point) ==
  /\ canvas.H # null
  /\ invertHomography(canvas.H) # null
  /\ videoToField(point[1], point[2], canvas.H) # null

\* The samples around the clicked point that project with |w| >= 1e-10.
KeptAround(point, radiusX, radiusY) ==
  Pushed(Projected(videoToField(point[1], point[2], canvas.H), radiusX, radiusY,
                   invertHomography(canvas.H)))

KeptOfEllipse ==
  LET fieldCenter == videoToField(canvas.start[1], canvas.start[2], canvas.H)
      fieldEdge == videoToField(canvas.end[1], canvas.end[2], canvas.H)
      radiusX == AbsNum(Sub(fieldEdge[1], fieldCenter[1]))
      radiusY == AbsNum(Sub(fieldEdge[2], fieldCenter[2]))
  IN KeptAround(canvas.start, EffectiveRadius(radiusX, radiusX, radiusY),
                EffectiveRadius(radiusY, radiusX, radiusY))

\* C17: with the anchors projected, the curve is built from exactly the
\* samples whose |w| is at least 1e-10; a closed curve (circle, ellipse)
\* falls back iff fewer than 3 samples remain, and the ring of the spotlight
\* falls back iff fewer than 2 remain.
C17_FallbackThresholds ==
  client = "draw" =>
    /\ (canvas.tool = "circle" /\ Anchored(canvas.start)) =>
         LET kept == KeptAround(canvas.start, canvas.end, canvas.end)
         IN IF Len(kept) < 3 THEN canvas.shape.kind = "Circle"
            ELSE canvas.shape = [kind |-> "Path", points |-> kept]
    /\ (canvas.tool = "ellipse" /\ Anchored(canvas.start) /\ Anchored(canvas.end)) =>
         IF Len(KeptOfEllipse) < 3
         THEN canvas.shape = HeuristicEllipse(canvas.start[1], canvas.start[2],
                                              canvas.end[1], canvas.end[2])
         ELSE canvas.shape = [kind |-> "Path", points |-> KeptOfEllipse]
    /\ (canvas.tool = "spotlight" /\ Anchored(canvas.start)) =>
         LET kept == KeptAround(canvas.start, Rat(3, 2), Rat(3, 2))
         IN IF Len(kept) < 2
            THEN canvas.shape = HeuristicSpotlight(canvas.start[1], canvas.start[2])
            ELSE "base" \in DOMAIN canvas.shape /\ canvas.shape.base = kept

\* The calibrated projection cannot be used for a curve about the start
\* point: no matrix, a singular matrix, the start point not mapped, or fewer
\* than least samples left.
Unusable(radiusX, radiusY, least) ==
  \/ ~Anchored(canvas.start)
  \/ Len(KeptAround(canvas.start, radiusX, radiusY)) < least

\* C18: every creator returns a shape, and whenever the calibrated projection
\* cannot be used (no H, singular H, an anchor with w near 0, too few
\* samples) the shape is the one drawn when no homography exists.
C18_FallbackIsHeuristic ==
  (client = "draw" /\ canvas.tool # "none") =>
    /\ canvas.shape # null
    /\ (canvas.tool = "circle" /\ Unusable(canvas.end, canvas.end, 3)) =>
         canvas.shape = createPerspectiveCircle(canvas.start[1], canvas.start[2],
                                                canvas.end, null)
    /\ (canvas.tool = "ellipse"
          /\ (~Anchored(canvas.start) \/ ~Anchored(canvas.end) \/ Len(KeptOfEllipse) < 3)) =>
         canvas.shape = createGroundEllipse(canvas.start[1], canvas.start[2],
                                            canvas.end[1], canvas.end[2], null)
    /\ (canvas.tool = "rectangle" /\ (~Anchored(canvas.start) \/ ~Anchored(canvas.end))) =>
         canvas.shape = createPerspectiveRectangle(canvas.start[1], canvas.start[2],
                                                   canvas.end[1], canvas.end[2], null)
    /\ (canvas.tool = "spotlight" /\ Unusable(Rat(3, 2), Rat(3, 2), 2)) =>
         canvas.shape = createPerspectiveSpotlight(canvas.start[1], canvas.start[2], null,
                                                   Rat(3, 2))

(* ---------------------------------------------------------------------- *)
(* The heuristic path and the stored homography.                           *)

\* The step of a hook's calculateDistance that returned the pixel estimate
\* was taken with no matrix stored.
C19_HookInStep ==
  (client = "hook" /\ lastCall' # lastCall /\ lastCall'.op = "calculateDistance"
     /\ lastCall'.out.via = "pixels")
  => homographyMatrix = null

\* A marker or a spotlight drawn with a matrix is not the heuristic one.
C19_DrawInState ==
  (client = "draw" /\ canvas.H # null) =>
    /\ canvas.tool = "player" => canvas.shape.calibrated
    /\ canvas.tool = "spotlight" => "base" \in DOMAIN canvas.shape

\* C19: the heuristic (pixel distance / 10, Y-based scale) is used only when
\* no homography is stored: with a homography no distance, marker size or
\* shape comes from the heuristic path.
C19_HeuristicOnlyUncalibrated == []C19_DrawInState /\ [][C19_HookInStep]_vars

(* ---------------------------------------------------------------------- *)
(* The calibrated rectangle.                                               *)

\* The corner of the field rectangle spanned by the two mapped clicks, with
\* the smaller or the larger coordinate on each axis, projected to the video.
CornerOf(largerX, largerY) ==
  LET fieldStart == videoToField(canvas.start[1], canvas.start[2], canvas.H)
      fieldEnd == videoToField(canvas.end[1], canvas.end[2], canvas.H)
      x == IF largerX THEN MathMax(fieldStart[1], fieldEnd[1])
           ELSE MathMin(fieldStart[1], fieldEnd[1])
      y == IF largerY THEN MathMax(fieldStart[2], fieldEnd[2])
           ELSE MathMin(fieldStart[2], fieldEnd[2])
  IN fieldToVideo(x, y, invertHomography(canvas.H))

\* A rectangle drawn with an invertible matrix that maps both clicks.
CalibratedRectangle ==
  /\ client = "draw"
  /\ canvas.tool = "rectangle"
  /\ Anchored(canvas.start)
  /\ Anchored(canvas.end)

\* C20: a calibrated rectangle has exactly the 4 projected corners of the
\* field rectangle of the two mapped clicks, in the order (minX,minY),
\* (maxX,minY), (maxX,maxY), (minX,maxY); if a corner does not project, the
\* fallback Rect is returned and no partial polygon.
C20_FourCornersInOrder ==
  CalibratedRectangle =>
    IF \E largerX \in BOOLEAN, largerY \in BOOLEAN : CornerOf(largerX, largerY) = null
    THEN canvas.shape = [kind |-> "Rect",
                         left |-> MathMin(canvas.start[1], canvas.end[1]),
                         top |-> MathMin(canvas.start[2], canvas.end[2]),
                         width |-> AbsNum(Sub(canvas.end[1], canvas.start[1])),
                         height |-> AbsNum(Sub(canvas.end[2], canvas.start[2]))]
    ELSE /\ canvas.shape.kind = "Polygon"
         /\ Len(canvas.shape.points) = 4
         /\ canvas.shape.points[1] = CornerOf(FALSE, FALSE)
         /\ canvas.shape.points[2] = CornerOf(TRUE, FALSE)
         /\ canvas.shape.points[3] = CornerOf(TRUE, TRUE)
         /\ canvas.shape.points[4] = CornerOf(FALSE, TRUE)

\* C20 witness: a calibrated rectangle drawn as a polygon of four different
\* vertices under a matrix with a projective row.
C20_Witness ==
  /\ CalibratedRectangle
  /\ canvas.H[3][1] # Zero
  /\ canvas.shape.kind = "Polygon"
  /\ Cardinality({canvas.shape.points[i] : i \in 1..4}) = 4

(* C21: the rings of the cylinder. *)

\* The points of a ring mapped back to the field.
OnField(ring, H) == Force([i \in 1..Len(ring) |-> videoToField(ring[i][1], ring[i][2], H)])

SquaredDistance(p, q) ==
  Add(Mul(Sub(p[1], q[1]), Sub(p[1], q[1])), Mul(Sub(p[2], q[2]), Sub(p[2], q[2])))

\* The samples of a ring in field space lie opposite each other around the
\* centre of the ring, all at one distance from it.
RingOfSamples(field) ==
  /\ \A i \in 1..Len(field) : field[i] # null
  /\ \A i, k \in 1..(Len(field) \div 2) :
       SquaredDistance(field[i], field[i + Len(field) \div 2])
         = SquaredDistance(field[k], field[k + Len(field) \div 2])

SameCount(group) ==
  /\ Len(group.top) = Len(group.base)
  /\ group.leftIdx \in 1..Len(group.base)
  /\ group.rightIdx \in 1..Len(group.base)

SidesByIndex(group) ==
  group.sides = << <<group.base[group.leftIdx], group.top[group.leftIdx]>>,
                   <<group.base[group.rightIdx], group.top[group.rightIdx]>> >>

IsCylinder == canvas.tool = "spotlight" /\ "top" \in DOMAIN canvas.shape

\* C21: the base ring and the top ring of a cylinder are each the projection
\* of a ring of field samples, each side segment joins the base point and the
\* top point of one index, and the two rings have the same number of points.
C21_RingsProjected ==
  IsCylinder =>
    /\ RingOfSamples(OnField(canvas.shape.base, canvas.H))
    /\ RingOfSamples(OnField(canvas.shape.top, canvas.H))
    /\ SameCount(canvas.shape)
    /\ SidesByIndex(canvas.shape)

\* The part of C21 that the top ring does not break.
C21_Rest ==
  IsCylinder =>
    /\ RingOfSamples(OnField(canvas.shape.base, canvas.H))
    /\ SameCount(canvas.shape)
    /\ SidesByIndex(canvas.shape)


(* ---------------------------------------------------------------------- *)
(* C22: the rounding of what is reported.                                   *)

\* Math.round(x * 10) / 10 of the length between two mapped points.
OneDecimal(x) == Div(RoundNum(Mul(x, Int2Num(10))), Int2Num(10))

FieldLength(t) ==
  Sqrt(Add(Sq(Sub(t[2].pitchX, t[1].pitchX)), Sq(Sub(t[2].pitchY, t[1].pitchY))))

\* A step of the hook's calculateDistance whose two points the stored matrix
\* maps, answered by the edge function or by the local calculation.
C22_Measured ==
  /\ client = "hook" /\ lastCall' # lastCall /\ lastCall'.op = "calculateDistance"
  /\ homographyMatrix # null
  /\ \A i \in 1..2 : Transformed(homographyMatrix, lastCall'.points)[i] # null
  /\ lastCall'.out.via \in {"edge", "pitch"}

C22_InStep ==
  C22_Measured =>
    lastCall'.out.distance = OneDecimal(FieldLength(Transformed(homographyMatrix, lastCall'.points)))

\* C22: every distance reported is the field distance rounded to one decimal,
\* on the remote path and on the hook's local path alike.
C22_DistanceOneDecimal == [][C22_InStep]_vars

\* The same for the answers of the edge function alone.
C22_EdgeInStep == (C22_Measured /\ lastCall'.out.via = "edge") => C22_InStep
C22_EdgeOneDecimal == [][C22_EdgeInStep]_vars

-----------------------------------------------------------------------------
(* The linear solver on its own: gaussianElimination applied to a square    *)
(* system, with the augmented matrix before and after each column.          *)

\* The rows of the systems of three unknowns.
SolveRows == {<<0, 1, 2>>, <<1, 1, 0>>, <<2, 0, 1>>, <<0, 0, 1>>, <<1, 2, 1>>}

IntRows(rows) == Force([i \in 1..Len(rows) |-> Force([j \in 1..Len(rows[i]) |-> Int2Num(rows[i][j])])])
IntVector(v) == Force([i \in 1..Len(v) |-> Int2Num(v[i])])

SolveMatrices ==
  {IntRows(<< <<a, b>>, <<c, d>> >>) :
     a \in -MaxEntry..MaxEntry, b \in -MaxEntry..MaxEntry,
     c \in -MaxEntry..MaxEntry, d \in -MaxEntry..MaxEntry}
  \cup {IntRows(<<r1, r2, r3>>) : r1 \in SolveRows, r2 \in SolveRows, r3 \in SolveRows}

SolveVectors(n) == {IntVector([i \in 1..n |-> 1]), IntVector([i \in 1..n |-> i - 1])}

\* The augmented matrix at the start of the loop over the columns and after
\* each of its rounds.
RECURSIVE EliminationSteps(_, _)
EliminationSteps(aug, col) ==
  IF col > Len(aug) THEN <<aug>>
  ELSE <<aug>> \o EliminationSteps(
         EliminateColumn(SwapRows(aug, col, FindPivot(aug, col, col + 1, col)), col), col + 1)

Solve ==
  /\ client = "solve"
  /\ canvas.x = null
  /\ canvas' = [canvas EXCEPT
       !.steps = EliminationSteps(Force([i \in 1..Len(canvas.A) |->
                                           Append(canvas.A[i], canvas.b[i])]), 1),
       !.x = gaussianElimination(canvas.A, canvas.b)]
  /\ UNCHANGED <<client, edgeVars, hookVars>>

InitSolve ==
  /\ client = "solve"
  /\ IdleEdge
  /\ mode = "local"
  /\ IdleHook
  /\ \E A \in SolveMatrices : \E b \in SolveVectors(Len(A)) :
       canvas = [A |-> A, b |-> b, steps |-> <<>>, x |-> null]

SpecSolve == InitSolve /\ [][Solve]_vars

-----------------------------------------------------------------------------
(* The normalization on its own: normalizePoints applied to a point list,   *)
(* n being the length of the list as in computeHomography.                  *)

NormalizeLists ==
  {<<p, q>> : p \in Grid, q \in Grid}
  \cup {<<p, q, r>> : p \in Grid, q \in Grid, r \in Grid}
  \cup {VideoPrefix(CalibrationLists[k], Len(CalibrationLists[k])) : k \in DOMAIN CalibrationLists}
  \cup {PitchPrefix(CalibrationLists[k], Len(CalibrationLists[k])) : k \in DOMAIN CalibrationLists}

Normalize ==
  /\ client = "normalize"
  /\ canvas.out = null
  /\ canvas' = [canvas EXCEPT !.out = normalizePoints(canvas.points, Len(canvas.points))]
  /\ UNCHANGED <<client, edgeVars, hookVars>>

InitNormalize ==
  /\ client = "normalize"
  /\ IdleEdge
  /\ mode = "local"
  /\ IdleHook
  /\ \E points \in NormalizeLists : canvas = [points |-> points, out |-> null]

SpecNormalize == InitNormalize /\ [][Normalize]_vars

(* ---------------------------------------------------------------------- *)
(* C23: partial pivoting.                                                   *)

Solved == client = "solve" /\ canvas.x # null

\* The round of column col took the row of the largest absolute entry of the
\* column among the rows col..n into the pivot position.
LargestIsPivot(before, after, col) ==
  /\ \E row \in col..Len(before) : after[col] = before[row]
  /\ \A row \in col..Len(before) : ~AbsGt(before[row][col], after[col][col])

\* After the round every entry below the pivot is zero.
ZeroBelowPivot(after, col) == \A row \in (col + 1)..Len(after) : IsZero(after[row][col])

Round(col) ==
  /\ LargestIsPivot(canvas.steps[col], canvas.steps[col + 1], col)
  /\ ZeroBelowPivot(canvas.steps[col + 1], col)

Determinant(A) ==
  IF Len(A) = 3 THEN Det3(A) ELSE Sub(Mul(A[1][1], A[2][2]), Mul(A[1][2], A[2][1]))

\* A x = b
Satisfies(A, x, b) ==
  \A i \in 1..Len(A) : SumSeq(Force([k \in 1..Len(A) |-> Mul(A[i][k], x[k])])) = b[i]

\* C23: at each column the largest absolute entry among the rows not yet
\* processed is swapped into the pivot position, after the round every entry
\* below the pivot is zero, and for a non-singular system A x = b.
C23_PartialPivoting ==
  Solved =>
    /\ \A col \in 1..Len(canvas.A) : Round(col)
    /\ ~IsZero(Determinant(canvas.A)) => Satisfies(canvas.A, canvas.x, canvas.b)

\* The same for the non-singular systems alone.
C23_NonSingular ==
  (Solved /\ ~IsZero(Determinant(canvas.A))) =>
    /\ \A col \in 1..Len(canvas.A) : Round(col)
    /\ Satisfies(canvas.A, canvas.x, canvas.b)

(* ---------------------------------------------------------------------- *)
(* C24: the normalization.                                                  *)

Normalized == client = "normalize" /\ canvas.out # null

Spread == \E i, j \in DOMAIN canvas.points : canvas.points[i] # canvas.points[j]

\* T applied to the point (x, y, 1).
Applied(T, p) ==
  << Add(Add(Mul(T[1][1], p[1]), Mul(T[1][2], p[2])), T[1][3]),
     Add(Add(Mul(T[2][1], p[1]), Mul(T[2][2], p[2])), T[2][3]) >>

MeanOf(values) == Div(SumSeq(values), Int2Num(Len(values)))

Lengths(points) == Force([i \in 1..Len(points) |-> Sqrt(Add(Sq(points[i][1]), Sq(points[i][2])))])
SquaredLengths(points) == Force([i \in 1..Len(points) |-> Add(Sq(points[i][1]), Sq(points[i][2]))])

\* T and invT are mutual inverses, the normalized points are T applied to the
\* inputs, and their mean is the origin.
NormalizedAboutOrigin(points, out) ==
  /\ matMul(out.T, out.invT) = Identity3
  /\ matMul(out.invT, out.T) = Identity3
  /\ \A i \in DOMAIN points : out.normalized[i] = Applied(out.T, points[i])
  /\ MeanOf(Force([i \in 1..Len(points) |-> out.normalized[i][1]])) = Zero
  /\ MeanOf(Force([i \in 1..Len(points) |-> out.normalized[i][2]])) = Zero

\* The average distance, where the sum of the square roots is representable.
AverageDistanceIs(points, length) ==
  MeanOf(Lengths(points)) \in {Irrep, length}

\* C24: for every point set that is not one repeated point, T and invT are
\* mutual inverses, the normalized points are T applied to the inputs, their
\* mean is 0 and their average distance from the origin is sqrt(2).
C24_NormalizedToSqrt2 ==
  (Normalized /\ Spread) =>
    /\ NormalizedAboutOrigin(canvas.points, canvas.out)
    /\ AverageDistanceIs(canvas.out.normalized, Sqrt(Int2Num(2)))

\* The same with the root of the mean squared distance in place of the
\* average distance.
C24_RootMeanSquare ==
  (Normalized /\ Spread) =>
    /\ NormalizedAboutOrigin(canvas.points, canvas.out)
    /\ MeanOf(SquaredLengths(canvas.out.normalized)) = Int2Num(2)

(* ---------------------------------------------------------------------- *)
(* C25: isCalibrated and the stored matrix.                                 *)

\* A stored value that is a matrix of three rows of three entries.
IsMatrix3(M) == M # null /\ Len(M) = 3 /\ \A i \in 1..3 : Len(M[i]) = 3

C25_InState == client = "hook" => (isCalibrated <=> IsMatrix3(homographyMatrix))

\* A call of calibrate that returned true set both, reset cleared both, and
\* no step changed one without the other.
C25_InStep ==
  client = "hook" =>
    /\ (lastCall' # lastCall /\ lastCall'.op = "calibrate" /\ lastCall'.ret)
         => (isCalibrated' /\ IsMatrix3(homographyMatrix'))
    /\ (lastCall' # lastCall /\ lastCall'.op = "reset")
         => (~isCalibrated' /\ homographyMatrix' = null)
    /\ (isCalibrated' # isCalibrated) <=> (IsMatrix3(homographyMatrix') # IsMatrix3(homographyMatrix))

\* C25: isCalibrated is true exactly when a non-null 3x3 matrix is stored; a
\* successful calibrate sets both, reset clears both, and no operation sets
\* one without the other.
C25_CalibratedIffMatrix == []C25_InState /\ [][C25_InStep]_vars

\* The same for the hooks that do not store what a backend answered.
C25_WithoutBackend == [](mode # "backend" => C25_InState) /\ [][mode # "backend" => C25_InStep]_vars

(* ---------------------------------------------------------------------- *)
(* C26: a failed calibrate.                                                 *)

FailedCalibrate == lastCall.op = "calibrate" /\ ~lastCall.ret

C26_InStep ==
  (client = "hook" /\ lastCall' # lastCall /\ lastCall'.op = "calibrate" /\ ~lastCall'.ret)
  => (homographyMatrix' = homographyMatrix /\ isCalibrated' = isCalibrated)

\* C26: a call of calibrate that resolves to false leaves the stored matrix
\* and isCalibrated as they were: a failed attempt never loses or overwrites
\* a calibration.
C26_FailedKeepsState == [][C26_InStep]_vars

\* A calibration is stored and the last call of calibrate, over 4 points or
\* more, failed.
C26_Witness ==
  /\ client = "hook" /\ FailedCalibrate /\ Len(lastCall.points) >= 4
  /\ isCalibrated /\ homographyMatrix # null

(* ---------------------------------------------------------------------- *)
(* C27: isCalibrating.                                                      *)

C27_InState ==
  client = "hook" =>
    /\ isCalibrating <=> pending # <<>>
    /\ lastCall.op = "calibrate" => lastCall.ret \in BOOLEAN

\* C27: isCalibrating is true exactly while a request is pending, and a call
\* that started eventually resolves to a boolean, after which isCalibrating
\* is false.
C27_CalibratingWhilePending == []C27_InState /\ (isCalibrating ~> ~isCalibrating)

\* The part about the calls resolving.
C27_Resolves == (isCalibrating ~> ~isCalibrating) /\ (pending # <<>> ~> lastCall.op = "calibrate")

-----------------------------------------------------------------------------
(* SoccerAnalyzer with useAnnotations and useHomography(): the tool in use,  *)
(* the annotations and their history, and the calibration points marked by  *)
(* a click on the video followed by a click on the pitch diagram.  The hook *)
(* is called without apiEndpoint.                                           *)

MaxPairs == 2
MaxHistory == 3

AnnotationTools ==
  {"select", "calibrate", "player", "spotlight", "distance", "trail", "arrow", "rectangle",
   "circle", "freehand"}

\* requiresCalibration: true
RequiresCalibration(tool) == tool = "distance"

PITCH_WIDTH == 105
PITCH_HEIGHT == 68

PITCH_REFERENCE_POINTS ==
  << [x |-> Zero, y |-> Zero],
     [x |-> Int2Num(PITCH_WIDTH), y |-> Zero],
     [x |-> Int2Num(PITCH_WIDTH), y |-> Int2Num(PITCH_HEIGHT)],
     [x |-> Zero, y |-> Int2Num(PITCH_HEIGHT)],
     [x |-> Rat(PITCH_WIDTH, 2), y |-> Zero],
     [x |-> Rat(PITCH_WIDTH, 2), y |-> Int2Num(PITCH_HEIGHT)],
     [x |-> Rat(PITCH_WIDTH, 2), y |-> Rat(PITCH_HEIGHT, 2)],
     [x |-> Int2Num(11), y |-> Rat(PITCH_HEIGHT, 2)],
     [x |-> Int2Num(PITCH_WIDTH - 11), y |-> Rat(PITCH_HEIGHT, 2)] >>

\* The clicks on the video and on the pitch diagram (in meters): a corner, a
\* point near the centre spot, a point beyond the far corner, a point as far
\* from the first corner as from the top centre, and one near a penalty spot.
VideoClicks == {<<Zero, Zero>>, <<One, Int2Num(2)>>}
PitchClicks ==
  {<<Zero, Zero>>, <<Int2Num(50), Int2Num(30)>>, <<Int2Num(110), Int2Num(70)>>,
   <<Rat(105, 4), Zero>>, <<Int2Num(12), Int2Num(34)>>}

\* The annotations added: their content plays no part in the history.
Items == {"a", "b"}

\* Math.pow(ref.x - pitchX, 2) + Math.pow(ref.y - pitchY, 2); Math.sqrt is
\* monotone, so dist < minDist is decided on the squares.
SquaredTo(ref, pitchX, pitchY) == Add(Sq(Sub(ref.x, pitchX)), Sq(Sub(ref.y, pitchY)))

\* The loop over PITCH_REFERENCE_POINTS from index i on.
RECURSIVE NearestFrom(_, _, _, _, _)
NearestFrom(pitchX, pitchY, i, nearest, minDist) ==
  IF i > Len(PITCH_REFERENCE_POINTS) THEN nearest
  ELSE IF Less(SquaredTo(PITCH_REFERENCE_POINTS[i], pitchX, pitchY), minDist)
  THEN NearestFrom(pitchX, pitchY, i + 1, PITCH_REFERENCE_POINTS[i],
                   SquaredTo(PITCH_REFERENCE_POINTS[i], pitchX, pitchY))
  ELSE NearestFrom(pitchX, pitchY, i + 1, nearest, minDist)

\* The click itself, taken without the search.
AsClicked(pitchX, pitchY) == [x |-> pitchX, y |-> pitchY]

\* let nearest = PITCH_REFERENCE_POINTS[0]; let minDist = Infinity; for (...)
Nearest(pitchX, pitchY) == NearestFrom(pitchX, pitchY, 1, PITCH_REFERENCE_POINTS[1], PosInf)

\* The handler that ran last and what it was given.
Handled(op, at, before) == [op |-> op, at |-> at, before |-> before]

Annotations(a) == [players |-> a.players, distances |-> a.distances, trails |-> a.trails]

\* saveToHistory, followed by the three setters of the caller.
Saved(a, players, distances, trails) ==
  [a EXCEPT !.history = Append(SubSeq(a.history, 1, a.historyIndex + 1), Annotations(a)),
            !.historyIndex = a.historyIndex + 1,
            !.players = players, !.distances = distances, !.trails = trails]

\* clearCalibration
clearCalibration(a) == [a EXCEPT !.calibrationPoints = <<>>, !.pendingVideoPoint = null]

\* A step of the component that leaves the hook's state alone.
Analyzed(next, op, at) ==
  /\ client = "analyzer"
  /\ canvas' = [next EXCEPT !.event = Handled(op, at, Annotations(canvas))]
  /\ UNCHANGED <<client, edgeVars, hookVars>>

\* onToolChange of the toolbar; the button of a tool that requires a
\* calibration is disabled while isCalibrated is false.
SetActiveTool ==
  \E tool \in AnnotationTools :
    /\ ~(RequiresCalibration(tool) /\ ~isCalibrated)
    /\ Analyzed([canvas EXCEPT !.activeTool = tool], "setActiveTool", tool)

\* handleCalibrationPointFromVideo, called by the canvas under the calibrate tool.
HandleCalibrationPointFromVideo ==
  \E point \in VideoClicks :
    /\ canvas.activeTool = "calibrate"
    /\ Analyzed(IF canvas.pendingVideoPoint # null THEN canvas
                ELSE [canvas EXCEPT !.pendingVideoPoint = [x |-> point[1], y |-> point[2]]],
                "videoClick", point)

\* handlePitchClick with addCalibrationPoint, called by the diagram in
\* calibration mode.
HandlePitchClick ==
  \E click \in PitchClicks :
    /\ canvas.activeTool = "calibrate"
    /\ Len(canvas.calibrationPoints) < MaxPairs
    /\ Analyzed(IF canvas.pendingVideoPoint = null THEN canvas
                ELSE [canvas EXCEPT
                        !.calibrationPoints =
                           Append(@, [videoX |-> canvas.pendingVideoPoint.x,
                                      videoY |-> canvas.pendingVideoPoint.y,
                                      pitchX |-> Nearest(click[1], click[2]).x,
                                      pitchY |-> Nearest(click[1], click[2]).y]),
                        !.pendingVideoPoint = null],
                "pitchClick", click)

\* removeCalibrationPoint, from the calibration panel.
RemoveCalibrationPoint ==
  \E index \in DOMAIN canvas.calibrationPoints :
    /\ canvas.activeTool = "calibrate"
    /\ Analyzed([canvas EXCEPT !.calibrationPoints = Without(@, index)],
                "removeCalibrationPoint", index)

\* addPlayer, addDistance and addTrail.
AddPlayer ==
  \E item \in Items :
    /\ canvas.historyIndex + 1 < MaxHistory
    /\ Analyzed(Saved(canvas, Append(canvas.players, item), canvas.distances, canvas.trails),
                "addPlayer", item)

AddDistance ==
  \E item \in Items :
    /\ canvas.historyIndex + 1 < MaxHistory
    /\ Analyzed(Saved(canvas, canvas.players, Append(canvas.distances, item), canvas.trails),
                "addDistance", item)

AddTrail ==
  \E item \in Items :
    /\ canvas.historyIndex + 1 < MaxHistory
    /\ Analyzed(Saved(canvas, canvas.players, canvas.distances, Append(canvas.trails, item)),
                "addTrail", item)

\* undo: history[historyIndex - 1] of the 0-based array.
Undo ==
  /\ client = "analyzer"
  /\ Analyzed(IF canvas.historyIndex > 0
              THEN [canvas EXCEPT !.players = canvas.history[canvas.historyIndex].players,
                                  !.distances = canvas.history[canvas.historyIndex].distances,
                                  !.trails = canvas.history[canvas.historyIndex].trails,
                                  !.historyIndex = canvas.historyIndex - 1]
              ELSE canvas,
              "undo", null)

\* redo: history[historyIndex + 1] of the 0-based array.
Redo ==
  /\ client = "analyzer"
  /\ Analyzed(IF canvas.historyIndex < Len(canvas.history) - 1
              THEN [canvas EXCEPT !.players = canvas.history[canvas.historyIndex + 2].players,
                                  !.distances = canvas.history[canvas.historyIndex + 2].distances,
                                  !.trails = canvas.history[canvas.historyIndex + 2].trails,
                                  !.historyIndex = canvas.historyIndex + 1]
              ELSE canvas,
              "redo", null)

\* resetHomography
ResetHomography ==
  /\ homographyMatrix' = setHomographyMatrix(homographyMatrix, null)
  /\ isCalibrated' = FALSE
  /\ lastCall' = Returned("reset", <<>>, FALSE)
  /\ UNCHANGED <<client, edgeVars, mode, isCalibrating, pending>>

\* handleClearAll: clearAll(), clearCalibration(), resetHomography().
HandleClearAll ==
  /\ client = "analyzer"
  /\ canvas.historyIndex + 1 < MaxHistory
  /\ canvas' = [clearCalibration(Saved(canvas, <<>>, <<>>, <<>>))
                  EXCEPT !.event = Handled("clearAll", null, Annotations(canvas))]
  /\ ResetHomography

\* onClear of the calibration panel, shown under the calibrate tool.
PanelClear ==
  /\ client = "analyzer"
  /\ canvas.activeTool = "calibrate"
  /\ canvas' = [clearCalibration(canvas)
                  EXCEPT !.event = Handled("clearCalibration", null, Annotations(canvas))]
  /\ ResetHomography

\* handleCalibrate: calibrate(calibrationPoints) of the hook, then
\* setActiveTool('select') when it returned true.
HandleCalibrate ==
  /\ client = "analyzer"
  /\ canvas.activeTool = "calibrate"
  /\ IF Len(canvas.calibrationPoints) < 4
     THEN /\ lastCall' = Returned("calibrate", canvas.calibrationPoints, FALSE)
          /\ UNCHANGED <<homographyMatrix, isCalibrating, isCalibrated>>
     ELSE StoreLocal(canvas.calibrationPoints, calculateHomographyLocal(canvas.calibrationPoints))
  /\ canvas' = [canvas EXCEPT
                  !.activeTool = IF lastCall'.ret THEN "select" ELSE @,
                  !.event = Handled("calibrate", null, Annotations(canvas))]
  /\ UNCHANGED <<client, edgeVars, mode, pending>>

\* The component after its first render.
NewAnalyzer ==
  [activeTool |-> "select", players |-> <<>>, distances |-> <<>>, trails |-> <<>>,
   history |-> <<>>, historyIndex |-> -1, calibrationPoints |-> <<>>,
   pendingVideoPoint |-> null, event |-> Handled("none", null, null)]

InitAnalyzer ==
  /\ client = "analyzer"
  /\ IdleEdge
  /\ mode = "local"
  /\ IdleHook
  /\ canvas = NewAnalyzer

\* Marking calibration points.
NextPairing ==
  \/ SetActiveTool
  \/ HandleCalibrationPointFromVideo
  \/ HandlePitchClick
  \/ RemoveCalibrationPoint
  \/ PanelClear
  \/ HandleClearAll

SpecPairing == InitAnalyzer /\ [][NextPairing]_vars

\* Annotating, undoing and redoing.
NextHistory ==
  \/ AddPlayer
  \/ AddDistance
  \/ AddTrail
  \/ Undo
  \/ Redo
  \/ HandleClearAll

SpecHistory == InitAnalyzer /\ [][NextHistory]_vars

\* The four corners of the frame marked on the four corners of the pitch.
MarkedCorners ==
  PointsPrefix(<< <<0, 0, 0, 0>>, <<800, 0, 105, 0>>, <<800, 600, 105, 68>>, <<0, 600, 0, 68>> >>, 4)

\* Choosing tools and calibrating, from no point or four points marked.
InitTools ==
  /\ client = "analyzer"
  /\ IdleEdge
  /\ mode = "local"
  /\ IdleHook
  /\ \E points \in {<<>>, MarkedCorners} :
       canvas = [NewAnalyzer EXCEPT !.calibrationPoints = points]

NextTools ==
  \/ SetActiveTool
  \/ RemoveCalibrationPoint
  \/ HandleCalibrate
  \/ PanelClear
  \/ HandleClearAll

SpecTools == InitTools /\ [][NextTools]_vars

(* ---------------------------------------------------------------------- *)
(* C28: a click on the video, then a click on the pitch.                    *)

ReferencePoints == {PITCH_REFERENCE_POINTS[i] : i \in DOMAIN PITCH_REFERENCE_POINTS}

\* The reference point is as near to the click as any.
NearestTo(ref, click) ==
  /\ ref \in ReferencePoints
  /\ \A other \in ReferencePoints :
       ~Less(SquaredTo(other, click[1], click[2]), SquaredTo(ref, click[1], click[2]))

\* Every stored correspondence has its four coordinates, the field ones
\* being those of a reference point.
C28_InState ==
  client = "analyzer" =>
    \A i \in DOMAIN canvas.calibrationPoints :
      /\ DOMAIN canvas.calibrationPoints[i] = {"videoX", "videoY", "pitchX", "pitchY"}
      /\ \A f \in DOMAIN canvas.calibrationPoints[i] : IsFinite(canvas.calibrationPoints[i][f])
      /\ [x |-> canvas.calibrationPoints[i].pitchX, y |-> canvas.calibrationPoints[i].pitchY]
           \in ReferencePoints

VideoClickStep == canvas'.event.op = "videoClick"
PitchClickStep == canvas'.event.op = "pitchClick"

C28_InStep ==
  client = "analyzer" =>
    /\ (VideoClickStep /\ canvas.pendingVideoPoint # null) =>
         /\ canvas'.pendingVideoPoint = canvas.pendingVideoPoint
         /\ canvas'.calibrationPoints = canvas.calibrationPoints
    /\ (VideoClickStep /\ canvas.pendingVideoPoint = null) =>
         /\ canvas'.pendingVideoPoint = [x |-> canvas'.event.at[1], y |-> canvas'.event.at[2]]
         /\ canvas'.calibrationPoints = canvas.calibrationPoints
    /\ (PitchClickStep /\ canvas.pendingVideoPoint = null) =>
         /\ canvas'.calibrationPoints = canvas.calibrationPoints
         /\ canvas'.pendingVideoPoint = null
    /\ (PitchClickStep /\ canvas.pendingVideoPoint # null) =>
         /\ Len(canvas'.calibrationPoints) = Len(canvas.calibrationPoints) + 1
         /\ SubSeq(canvas'.calibrationPoints, 1, Len(canvas.calibrationPoints))
              = canvas.calibrationPoints
         /\ LET added == canvas'.calibrationPoints[Len(canvas'.calibrationPoints)]
            IN  /\ added.videoX = canvas.pendingVideoPoint.x
                /\ added.videoY = canvas.pendingVideoPoint.y
                /\ NearestTo([x |-> added.pitchX, y |-> added.pitchY], canvas'.event.at)
         /\ canvas'.pendingVideoPoint = null
    /\ ~PitchClickStep => Len(canvas'.calibrationPoints) <= Len(canvas.calibrationPoints)

\* C28: a click on the video while a video point is pending is rejected, a
\* click on the pitch with no pending point adds nothing, a click on the pitch
\* with a pending point appends one correspondence, the pending point paired
\* with the nearest reference point, and clears the pending point; every
\* stored correspondence has both coordinates, its field one a reference point.
C28_VideoThenPitch == []C28_InState /\ [][C28_InStep]_vars

\* Two correspondences are stored, one of them on the centre line by a click
\* that is on no reference point, and a video point is pending again.
C28_Witness ==
  /\ client = "analyzer"
  /\ Len(canvas.calibrationPoints) = 2
  /\ canvas.pendingVideoPoint # null
  /\ \E i \in DOMAIN canvas.calibrationPoints :
       canvas.calibrationPoints[i].pitchX = Rat(PITCH_WIDTH, 2)

(* ---------------------------------------------------------------------- *)
(* C29: undoing and redoing annotations.                                    *)

\* The handlers that save to the history.
RecordedOps == {"addPlayer", "addDistance", "addTrail", "clearAll"}

C29_InState ==
  client = "analyzer" =>
    /\ -1 <= canvas.historyIndex
    /\ canvas.historyIndex <= Len(canvas.history) - 1

\* An undo that follows a recorded action puts back the annotations that
\* held before the action; a redo that follows an undo puts back those that
\* held before the undo.
C29_InStep ==
  client = "analyzer" =>
    /\ (canvas'.event.op = "undo" /\ canvas.event.op \in RecordedOps) =>
         Annotations(canvas') = canvas.event.before
    /\ (canvas'.event.op = "redo" /\ canvas.event.op = "undo") =>
         Annotations(canvas') = canvas.event.before

\* C29: after any sequence of addPlayer, addDistance, addTrail and clearAll,
\* undo restores the players, distances and trails to what they were before
\* the most recent such action, the first one included; undo followed at once
\* by redo restores what held before the undo; and the index stays within
\* -1 <= historyIndex <= history.length - 1.
C29_FaithfulHistory == []C29_InState /\ [][C29_InStep]_vars

\* The part of C29 about redo alone.
C29_RedoAfterUndo ==
  [][(client = "analyzer" /\ canvas'.event.op = "redo" /\ canvas.event.op = "undo")
       => Annotations(canvas') = canvas.event.before]_vars

\* The part of C29 about the index alone.
C29_IndexInRange == []C29_InState

(* ---------------------------------------------------------------------- *)
(* C30: the distance tool and the calibration.                              *)

\* C30: in every state of the analyzer, whatever the tool changes,
\* calibrations, clearings of the calibration and clearings of everything
\* before it, the active tool is the distance tool only while the hook is
\* calibrated.
C30_DistanceOnlyCalibrated ==
  client = "analyzer" => (canvas.activeTool = "distance" => isCalibrated)

====
